---------------------------- MODULE Spec2Model ----------------------------
(***************************************************************************)
(* gsprotocol: an http.RoundTripper serving Google Cloud Storage objects.  *)
(* The model follows the Transport of src/unnamed/part_006: RoundTrip,     *)
(* getObject, headObject, objectAttrs, handleError, the RFC 7232           *)
(* precondition checks and makeHeader, running against a versioned object  *)
(* store that other writers overwrite and delete concurrently.             *)
(*                                                                         *)
(* Text that the code parses (ETag lists, generation fragments, dates,     *)
(* decimal numbers) is a sequence of one-character strings; text the code  *)
(* only copies is a TLA+ string.                                           *)
(***************************************************************************)
EXTENDS Integers, Sequences, FiniteSets, TLC

(***************************************************************************)
(* Bytes and characters                                                    *)
(***************************************************************************)

\* The printable ASCII characters 0x20..0x7E in code order ("<60>" stands
\* for the grave accent 0x60).
Ascii ==
    << " ", "!", "\"", "#", "$", "%", "&", "'", "(", ")", "*", "+", ",", "-", ".", "/",
       "0", "1", "2", "3", "4", "5", "6", "7", "8", "9", ":", ";", "<", "=", ">", "?",
       "@", "A", "B", "C", "D", "E", "F", "G", "H", "I", "J", "K", "L", "M", "N", "O",
       "P", "Q", "R", "S", "T", "U", "V", "W", "X", "Y", "Z", "[", "\\", "]", "^", "_",
       "<60>", "a", "b", "c", "d", "e", "f", "g", "h", "i", "j", "k", "l", "m", "n", "o",
       "p", "q", "r", "s", "t", "u", "v", "w", "x", "y", "z", "{", "|", "}", "~" >>

\* The byte value of a character. "\t" is 0x09; "<7f>", "<80>" and "<ff>"
\* stand for the single bytes 0x7F, 0x80 and 0xFF, which have no printable
\* form.
Ord(c) ==
    CASE c = "\t" -> 9
      [] c = "\n" -> 10
      [] c = "\r" -> 13
      [] c = "<7f>" -> 127
      [] c = "<80>" -> 128
      [] c = "<ff>" -> 255
      [] OTHER -> 31 + (CHOOSE i \in 1..Len(Ascii) : Ascii[i] = c)

\* textproto.isASCIISpace
isASCIISpace(c) == c \in {" ", "\t", "\n", "\r"}

RECURSIVE TrimLeft(_)
TrimLeft(s) ==
    IF s # <<>> /\ isASCIISpace(Head(s)) THEN TrimLeft(Tail(s)) ELSE s

RECURSIVE TrimRight(_)
TrimRight(s) ==
    IF s # <<>> /\ isASCIISpace(s[Len(s)])
    THEN TrimRight(SubSeq(s, 1, Len(s) - 1))
    ELSE s

\* textproto.TrimString
TrimString(s) == TrimRight(TrimLeft(s))

\* strings.HasPrefix
HasPrefix(s, p) == Len(s) >= Len(p) /\ SubSeq(s, 1, Len(p)) = p

\* Mutant of TrimPrefix: the prefix is removed as often as it is there.
RECURSIVE TrimPrefixRepeated(_, _)
TrimPrefixRepeated(s, p) ==
    IF p # <<>> /\ HasPrefix(s, p)
    THEN TrimPrefixRepeated(SubSeq(s, Len(p) + 1, Len(s)), p)
    ELSE s

\* strings.TrimPrefix
TrimPrefix(s, p) == IF HasPrefix(s, p) THEN SubSeq(s, Len(p) + 1, Len(s)) ELSE s


(***************************************************************************)
(* Numbers and dates as text                                               *)
(***************************************************************************)

Digits == << "0", "1", "2", "3", "4", "5", "6", "7", "8", "9" >>

IsDigit(c) == \E i \in 1..10 : Digits[i] = c

DigitVal(c) == (CHOOSE i \in 1..10 : Digits[i] = c) - 1

RECURSIVE FormatNat(_)
FormatNat(n) ==
    IF n < 10 THEN << Digits[n + 1] >>
    ELSE FormatNat(n \div 10) \o << Digits[(n % 10) + 1] >>

\* strconv.FormatInt(v, 10)
FormatInt(v) == IF v < 0 THEN << "-" >> \o FormatNat(0 - v) ELSE FormatNat(v)

RECURSIVE ParseNat(_, _)
ParseNat(s, acc) ==
    IF s = <<>> THEN acc ELSE ParseNat(Tail(s), (acc * 10) + DigitVal(Head(s)))

\* strconv.ParseInt(s, 10, 64): [ok, val]. An optional sign, then at least
\* one decimal digit and nothing else. The texts of the model have at most
\* three digits, so the int64 range error of ParseInt cannot arise.
ParseInt(s) ==
    LET neg == s # <<>> /\ Head(s) = "-"
        body == IF s # <<>> /\ Head(s) \in {"+", "-"} THEN Tail(s) ELSE s
        wellFormed == body # <<>> /\ \A i \in 1..Len(body) : IsDigit(body[i])
    IN  IF ~wellFormed THEN [ok |-> FALSE, val |-> 0]
        ELSE IF neg THEN [ok |-> TRUE, val |-> 0 - ParseNat(body, 0)]
        ELSE [ok |-> TRUE, val |-> ParseNat(body, 0)]

\* Clock ticks in one second: a time.Time is a count of ticks, so that an
\* instant can lie strictly inside a second. The zero time.Time is tick 0.
TicksPerSec == 2

\* time.Time.IsZero
IsZero(t) == t = 0

\* Mutant of TruncateSecond: the fraction of the second is kept.
TruncateSecondKeepsFraction(t) == t

\* time.Time.Truncate(time.Second)
TruncateSecond(t) == t - (t % TicksPerSec)

\* time.Time.Format(http.TimeFormat): an HTTP-date has whole seconds only.
\* The date text is the decimal count of seconds.
FormatHTTPTime(t) == FormatNat(t \div TicksPerSec)

\* http.ParseTime: [ok, t]. Text that is not a date is an error.
ParseTime(s) ==
    IF s # <<>> /\ \A i \in 1..Len(s) : IsDigit(s[i])
    THEN [ok |-> TRUE, t |-> ParseNat(s, 0) * TicksPerSec]
    ELSE [ok |-> FALSE, t |-> 0]

(***************************************************************************)
(* Entity tags                                                             *)
(***************************************************************************)

\* Mutant of scanETagFrom: the byte 0x7F is allowed in an ETag.
RECURSIVE scanETagFromAllowsDel(_, _)
scanETagFromAllowsDel(s, i) ==
    IF i > Len(s) THEN << <<>>, <<>> >>
    ELSE LET c == Ord(s[i])
         IN  IF c = 33 \/ (c >= 35 /\ c <= 127) \/ c >= 128
             THEN scanETagFromAllowsDel(s, i + 1)
             ELSE IF s[i] = "\""
             THEN << SubSeq(s, 1, i), SubSeq(s, i + 1, Len(s)) >>
             ELSE << <<>>, <<>> >>

\* The loop of scanETag from index i (1-based) of the trimmed text s.
RECURSIVE scanETagFrom(_, _)
scanETagFrom(s, i) ==
    IF i > Len(s) THEN << <<>>, <<>> >>
    ELSE LET c == Ord(s[i])
         IN  IF c = 33 \/ (c >= 35 /\ c <= 126) \/ c >= 128
             THEN scanETagFrom(s, i + 1)
             ELSE IF s[i] = "\""
             THEN << SubSeq(s, 1, i), SubSeq(s, i + 1, Len(s)) >>
             ELSE << <<>>, <<>> >>

\* scanETag: <<etag, remain>>, or << <<>>, <<>> >> when no syntactically
\* valid ETag starts the text.
scanETag(text) ==
    LET s == TrimString(text)
        start == IF HasPrefix(s, << "W", "/" >>) THEN 2 ELSE 0
    IN  IF Len(s) - start < 2 \/ s[start + 1] # "\""
        THEN << <<>>, <<>> >>
        ELSE scanETagFrom(s, start + 2)

\* Mutant of etagStrongMatch: the weak comparison is used.
etagStrongMatchAsWeak(a, b) ==
    TrimPrefix(a, << "W", "/" >>) = TrimPrefix(b, << "W", "/" >>)

\* Mutant of etagStrongMatch: the weakness mark of the first tag is dropped
\* before the comparison.
etagStrongMatchOpaque(a, b) ==
    TrimPrefix(a, << "W", "/" >>) = b /\ b # <<>> /\ b[1] = "\""

etagStrongMatch(a, b) == a = b /\ a # <<>> /\ a[1] = "\""

\* Mutant of etagWeakMatch: the tags are compared as they stand.
etagWeakMatchExact(a, b) == a = b

etagWeakMatch(a, b) == TrimPrefix(a, << "W", "/" >>) = TrimPrefix(b, << "W", "/" >>)

\* condResult
condNone == "condNone"
condTrue == "condTrue"
condFalse == "condFalse"

(***************************************************************************)
(* http.Header: canonical key -> the sequence of the key's values          *)
(***************************************************************************)

\* A word of text the code copies without looking inside.
T(str) == << str >>

EmptyHeader == [k \in {} |-> <<>>]

\* textproto.CanonicalMIMEHeaderKey on the keys the code and the store use:
\* the first letter and every letter after a hyphen in upper case, the
\* others in lower case.
CanonicalMIMEHeaderKey(k) ==
    CASE k = "ETag" -> "Etag"
      [] k = "x-goog-hash" -> "X-Goog-Hash"
      [] k = "x-goog-generation" -> "X-Goog-Generation"
      [] k = "x-goog-metageneration" -> "X-Goog-Metageneration"
      [] k = "x-goog-stored-content-length" -> "X-Goog-Stored-Content-Length"
      [] k = "x-goog-stored-content-encoding" -> "X-Goog-Stored-Content-Encoding"
      [] k = "x-goog-storage-class" -> "X-Goog-Storage-Class"
      [] k = "x-goog-meta-foo" -> "X-Goog-Meta-Foo"
      [] k = "x-goog-meta-Foo" -> "X-Goog-Meta-Foo"
      [] k = "x-goog-meta-bar" -> "X-Goog-Meta-Bar"
      [] OTHER -> k

\* http.Header.Get: the first value of the key, or the empty text.
HeaderGet(h, k) ==
    LET ck == CanonicalMIMEHeaderKey(k)
    IN  IF ck \in DOMAIN h /\ h[ck] # <<>> THEN h[ck][1] ELSE <<>>

\* http.Header.Set
HeaderSet(h, k, v) ==
    LET ck == CanonicalMIMEHeaderKey(k)
    IN  [x \in (DOMAIN h) \cup {ck} |-> IF x = ck THEN << v >> ELSE h[x]]

\* http.Header.Add
HeaderAdd(h, k, v) ==
    LET ck == CanonicalMIMEHeaderKey(k)
    IN  [x \in (DOMAIN h) \cup {ck} |->
            IF x = ck
            THEN (IF ck \in DOMAIN h THEN Append(h[ck], v) ELSE << v >>)
            ELSE h[x]]

\* http.Header.Del
HeaderDel(h, k) ==
    LET ck == CanonicalMIMEHeaderKey(k)
    IN  [x \in (DOMAIN h) \ {ck} |-> h[x]]

(***************************************************************************)
(* Precondition checks (RFC 7232)                                          *)
(***************************************************************************)

\* Mutant of checkIfMatchLoop: "*" is satisfied only by an object that has
\* an ETag.
RECURSIVE checkIfMatchLoopStarNeedsETag(_, _)
checkIfMatchLoopStarNeedsETag(value, etagHeader) ==
    LET im == TrimString(value)
    IN  IF Len(im) = 0 THEN condFalse
        ELSE IF im[1] = "," THEN checkIfMatchLoopStarNeedsETag(Tail(im), etagHeader)
        ELSE IF im[1] = "*" THEN (IF etagHeader # <<>> THEN condTrue ELSE condFalse)
        ELSE LET scanned == scanETag(im)
             IN  IF scanned[1] = <<>> THEN condFalse
                 ELSE IF etagStrongMatch(scanned[1], etagHeader) THEN condTrue
                 ELSE checkIfMatchLoopStarNeedsETag(scanned[2], etagHeader)

\* Mutant of checkIfMatchLoop: a text that is no ETag is passed over, one
\* byte at a time, and the scan goes on behind it.
RECURSIVE checkIfMatchLoopSkipsMalformed(_, _)
checkIfMatchLoopSkipsMalformed(value, etagHeader) ==
    LET im == TrimString(value)
    IN  IF Len(im) = 0 THEN condFalse
        ELSE IF im[1] = "," THEN checkIfMatchLoopSkipsMalformed(Tail(im), etagHeader)
        ELSE IF im[1] = "*" THEN condTrue
        ELSE LET scanned == scanETag(im)
             IN  IF scanned[1] = <<>>
                 THEN checkIfMatchLoopSkipsMalformed(Tail(im), etagHeader)
                 ELSE IF etagStrongMatch(scanned[1], etagHeader) THEN condTrue
                 ELSE checkIfMatchLoopSkipsMalformed(scanned[2], etagHeader)

\* The for loop of checkIfMatch over the rest im of the header value.
RECURSIVE checkIfMatchLoop(_, _)
checkIfMatchLoop(value, etagHeader) ==
    LET im == TrimString(value)
    IN  IF Len(im) = 0 THEN condFalse
        ELSE IF im[1] = "," THEN checkIfMatchLoop(Tail(im), etagHeader)
        ELSE IF im[1] = "*" THEN condTrue
        ELSE LET scanned == scanETag(im)
             IN  IF scanned[1] = <<>> THEN condFalse
                 ELSE IF etagStrongMatch(scanned[1], etagHeader) THEN condTrue
                 ELSE checkIfMatchLoop(scanned[2], etagHeader)

checkIfMatch(r, h, a) ==
    LET im == HeaderGet(r.Header, "If-Match")
    IN  IF im = <<>> THEN condNone ELSE checkIfMatchLoop(im, HeaderGet(h, "Etag"))

\* Mutant of checkIfUnmodifiedSince: a modification time equal to the date
\* of the header fails the check.
checkIfUnmodifiedSinceEqualFails(r, h, a) ==
    LET ius == HeaderGet(r.Header, "If-Unmodified-Since")
        parsed == ParseTime(ius)
        modtime == TruncateSecond(a.Updated)
    IN  IF ius = <<>> \/ IsZero(a.Updated) THEN condNone
        ELSE IF ~parsed.ok THEN condNone
        ELSE IF modtime < parsed.t THEN condTrue
        ELSE condFalse

checkIfUnmodifiedSince(r, h, a) ==
    LET ius == HeaderGet(r.Header, "If-Unmodified-Since")
        parsed == ParseTime(ius)
        modtime == TruncateSecond(a.Updated)
    IN  IF ius = <<>> \/ IsZero(a.Updated) THEN condNone
        ELSE IF ~parsed.ok THEN condNone
        ELSE IF modtime < parsed.t \/ modtime = parsed.t THEN condTrue
        ELSE condFalse

\* The for loop of checkIfNoneMatch over the rest inm of the header value.
RECURSIVE checkIfNoneMatchLoop(_, _)
checkIfNoneMatchLoop(value, etagHeader) ==
    LET inm == TrimString(value)
    IN  IF Len(inm) = 0 THEN condTrue
        ELSE IF inm[1] = "," THEN checkIfNoneMatchLoop(Tail(inm), etagHeader)
        ELSE IF inm[1] = "*" THEN condFalse
        ELSE LET scanned == scanETag(inm)
             IN  IF scanned[1] = <<>> THEN condTrue
                 ELSE IF etagWeakMatch(scanned[1], etagHeader) THEN condFalse
                 ELSE checkIfNoneMatchLoop(scanned[2], etagHeader)

\* Mutant of checkIfNoneMatch: a list without a match leaves the check
\* unevaluated.
checkIfNoneMatchNoneOnPass(r, h, a) ==
    LET inm == HeaderGet(r.Header, "If-None-Match")
    IN  IF inm = <<>> THEN condNone
        ELSE IF checkIfNoneMatchLoop(inm, HeaderGet(h, "Etag")) = condFalse THEN condFalse
        ELSE condNone

\* Mutant of checkIfNoneMatch: the header is not looked at.
checkIfNoneMatchSkipped(r, h, a) == condNone

checkIfNoneMatch(r, h, a) ==
    LET inm == HeaderGet(r.Header, "If-None-Match")
    IN  IF inm = <<>> THEN condNone
        ELSE checkIfNoneMatchLoop(inm, HeaderGet(h, "Etag"))

\* Mutant of checkIfModifiedSince: the modification time is not truncated.
checkIfModifiedSinceNotTruncated(r, h, a) ==
    LET ims == HeaderGet(r.Header, "If-Modified-Since")
        parsed == ParseTime(ims)
    IN  IF ims = <<>> \/ IsZero(a.Updated) THEN condNone
        ELSE IF ~parsed.ok THEN condNone
        ELSE IF a.Updated < parsed.t \/ a.Updated = parsed.t THEN condFalse
        ELSE condTrue

\* Mutant of checkIfModifiedSince: the date is compared with the
\* modification time of an object that has none.
checkIfModifiedSinceZeroTimeCompared(r, h, a) ==
    LET ims == HeaderGet(r.Header, "If-Modified-Since")
        parsed == ParseTime(ims)
        modtime == TruncateSecond(a.Updated)
    IN  IF ims = <<>> THEN condNone
        ELSE IF ~parsed.ok THEN condNone
        ELSE IF modtime < parsed.t \/ modtime = parsed.t THEN condFalse
        ELSE condTrue

checkIfModifiedSince(r, h, a) ==
    LET ims == HeaderGet(r.Header, "If-Modified-Since")
        parsed == ParseTime(ims)
        modtime == TruncateSecond(a.Updated)
    IN  IF ims = <<>> \/ IsZero(a.Updated) THEN condNone
        ELSE IF ~parsed.ok THEN condNone
        ELSE IF modtime < parsed.t \/ modtime = parsed.t THEN condFalse
        ELSE condTrue

(***************************************************************************)
(* Responses and errors                                                    *)
(***************************************************************************)

StatusOK == 200
StatusNotModified == 304
StatusNotFound == 404
StatusMethodNotAllowed == 405
StatusPreconditionFailed == 412

\* No *http.Response (nil).
NoResp ==
    [StatusCode |-> 0, Proto |-> "", ProtoMajor |-> 0, ProtoMinor |-> 0,
     Header |-> [k \in {} |-> <<>>], Body |-> [kind |-> "nil", gen |-> 0, data |-> <<>>],
     ContentLength |-> 0, Close |-> FALSE]

\* http.NoBody
NoBody == [kind |-> "NoBody", gen |-> 0, data |-> <<>>]

\* An *http.Response as the code builds it; ContentLength is the zero value
\* unless the code sets it.
Response(code, h, body, length) ==
    [StatusCode |-> code, Proto |-> "HTTP/1.0", ProtoMajor |-> 1, ProtoMinor |-> 0,
     Header |-> h, Body |-> body, ContentLength |-> length, Close |-> TRUE]

\* No error (nil).
NoErr == [kind |-> "nil", Code |-> 0, Body |-> <<>>, Header |-> EmptyHeader]

ErrObjectNotExist ==
    [kind |-> "ErrObjectNotExist", Code |-> 0, Body |-> <<>>, Header |-> EmptyHeader]

ErrBucketNotExist ==
    [kind |-> "ErrBucketNotExist", Code |-> 0, Body |-> <<>>, Header |-> EmptyHeader]

\* A failure of the connection to the store (neither of the sentinel errors
\* nor a *googleapi.Error).
ErrTransport ==
    [kind |-> "transport", Code |-> 0, Body |-> <<>>, Header |-> EmptyHeader]

\* fmt.Errorf("gsprotocol: invalid generation ...")
ErrInvalidGeneration ==
    [kind |-> "invalid generation", Code |-> 0, Body |-> <<>>, Header |-> EmptyHeader]

\* A *googleapi.Error with its status code, body and header.
GoogleAPIError(code, body, h) ==
    [kind |-> "googleapi.Error", Code |-> code, Body |-> body, Header |-> h]

\* Mutant of handleError: only a missing object gives 404.
handleErrorObjectOnly(e) ==
    IF e = ErrObjectNotExist
    THEN << Response(StatusNotFound, EmptyHeader, NoBody, 0), NoErr >>
    ELSE IF e.kind = "googleapi.Error"
    THEN << Response(e.Code, e.Header, [kind |-> "string", gen |-> 0, data |-> e.Body], 0),
            NoErr >>
    ELSE << NoResp, e >>

\* Mutant of handleError: the header of a *googleapi.Error is not passed on.
handleErrorDropsHeader(e) ==
    IF e = ErrObjectNotExist \/ e = ErrBucketNotExist
    THEN << Response(StatusNotFound, EmptyHeader, NoBody, 0), NoErr >>
    ELSE IF e.kind = "googleapi.Error"
    THEN << Response(e.Code, EmptyHeader, [kind |-> "string", gen |-> 0, data |-> e.Body], 0),
            NoErr >>
    ELSE << NoResp, e >>

\* Mutant of handleError: every other error becomes a 500 response.
handleErrorAsServerError(e) ==
    IF e = ErrObjectNotExist \/ e = ErrBucketNotExist
    THEN << Response(StatusNotFound, EmptyHeader, NoBody, 0), NoErr >>
    ELSE IF e.kind = "googleapi.Error"
    THEN << Response(e.Code, e.Header, [kind |-> "string", gen |-> 0, data |-> e.Body], 0),
            NoErr >>
    ELSE << Response(500, EmptyHeader, NoBody, 0), NoErr >>

\* Mutant of handleError: the passthrough response leaves the connection
\* open.
handleErrorKeepsConnection(e) ==
    IF e = ErrObjectNotExist \/ e = ErrBucketNotExist
    THEN << Response(StatusNotFound, EmptyHeader, NoBody, 0), NoErr >>
    ELSE IF e.kind = "googleapi.Error"
    THEN << [Response(e.Code, e.Header, [kind |-> "string", gen |-> 0, data |-> e.Body], 0)
                EXCEPT !.Close = FALSE],
            NoErr >>
    ELSE << NoResp, e >>

\* Mutant of handleError: a missing bucket gives 403.
handleErrorBucketForbidden(e) ==
    IF e = ErrObjectNotExist
    THEN << Response(StatusNotFound, EmptyHeader, NoBody, 0), NoErr >>
    ELSE IF e = ErrBucketNotExist
    THEN << Response(403, EmptyHeader, NoBody, 0), NoErr >>
    ELSE IF e.kind = "googleapi.Error"
    THEN << Response(e.Code, e.Header, [kind |-> "string", gen |-> 0, data |-> e.Body], 0),
            NoErr >>
    ELSE << NoResp, e >>

\* Mutant of handleError: an error that is neither a missing object or bucket
\* nor a structured error is dropped.
handleErrorSwallows(e) ==
    IF e = ErrObjectNotExist \/ e = ErrBucketNotExist
    THEN << Response(StatusNotFound, EmptyHeader, NoBody, 0), NoErr >>
    ELSE IF e.kind = "googleapi.Error"
    THEN << Response(e.Code, e.Header, [kind |-> "string", gen |-> 0, data |-> e.Body], 0),
            NoErr >>
    ELSE << NoResp, NoErr >>

\* handleError: <<response, error>>.
handleError(e) ==
    IF e = ErrObjectNotExist \/ e = ErrBucketNotExist
    THEN << Response(StatusNotFound, EmptyHeader, NoBody, 0), NoErr >>
    ELSE IF e.kind = "googleapi.Error"
    THEN << Response(e.Code, e.Header, [kind |-> "string", gen |-> 0, data |-> e.Body], 0),
            NoErr >>
    ELSE << NoResp, e >>

\* Mutant of checkPreconditions: If-None-Match and If-Modified-Since are
\* decided before If-Match and If-Unmodified-Since.
checkPreconditionsSecondStageFirst(r, h, a) ==
    LET ch1 == checkIfMatch(r, h, a)
        ch2 == IF ch1 = condNone THEN checkIfUnmodifiedSince(r, h, a) ELSE ch1
        ch3 == checkIfNoneMatch(r, h, a)
        h1 == HeaderDel(HeaderDel(h, "Content-Type"), "Content-Length")
        h2 == IF HeaderGet(h1, "Etag") # <<>> THEN HeaderDel(h1, "Last-Modified") ELSE h1
    IN  IF ch3 = condFalse
           \/ (ch3 = condNone /\ checkIfModifiedSince(r, h, a) = condFalse)
        THEN [resp |-> Response(StatusNotModified, h2, NoBody, 0), header |-> h2]
        ELSE IF ch2 = condFalse
        THEN [resp |-> Response(StatusPreconditionFailed, h, NoBody, 0), header |-> h]
        ELSE [resp |-> NoResp, header |-> h]

\* Mutant of checkPreconditions: If-Unmodified-Since is consulted also when
\* If-Match was satisfied.
checkPreconditionsAlwaysUnmodifiedSince(r, h, a) ==
    LET ch1 == checkIfMatch(r, h, a)
        ch2 == IF ch1 = condFalse THEN ch1 ELSE checkIfUnmodifiedSince(r, h, a)
        ch3 == checkIfNoneMatch(r, h, a)
        h1 == HeaderDel(HeaderDel(h, "Content-Type"), "Content-Length")
        h2 == IF HeaderGet(h1, "Etag") # <<>> THEN HeaderDel(h1, "Last-Modified") ELSE h1
    IN  IF ch2 = condFalse
        THEN [resp |-> Response(StatusPreconditionFailed, h, NoBody, 0), header |-> h]
        ELSE IF ch3 = condFalse
                \/ (ch3 = condNone /\ checkIfModifiedSince(r, h, a) = condFalse)
        THEN [resp |-> Response(StatusNotModified, h2, NoBody, 0), header |-> h2]
        ELSE [resp |-> NoResp, header |-> h]

\* Mutant of checkPreconditions: a 304 response never carries Last-Modified.
checkPreconditionsDropsLastModified(r, h, a) ==
    LET ch1 == checkIfMatch(r, h, a)
        ch2 == IF ch1 = condNone THEN checkIfUnmodifiedSince(r, h, a) ELSE ch1
        ch3 == checkIfNoneMatch(r, h, a)
        h1 == HeaderDel(HeaderDel(h, "Content-Type"), "Content-Length")
        h2 == HeaderDel(h1, "Last-Modified")
    IN  IF ch2 = condFalse
        THEN [resp |-> Response(StatusPreconditionFailed, h, NoBody, 0), header |-> h]
        ELSE IF ch3 = condFalse
                \/ (ch3 = condNone /\ checkIfModifiedSince(r, h, a) = condFalse)
        THEN [resp |-> Response(StatusNotModified, h2, NoBody, 0), header |-> h2]
        ELSE [resp |-> NoResp, header |-> h]

\* Mutant of checkPreconditions: the headers of a 412 response are stripped
\* as those of a 304 response are.
checkPreconditionsStrips412(r, h, a) ==
    LET ch1 == checkIfMatch(r, h, a)
        ch2 == IF ch1 = condNone THEN checkIfUnmodifiedSince(r, h, a) ELSE ch1
        ch3 == checkIfNoneMatch(r, h, a)
        h1 == HeaderDel(HeaderDel(h, "Content-Type"), "Content-Length")
        h2 == IF HeaderGet(h1, "Etag") # <<>> THEN HeaderDel(h1, "Last-Modified") ELSE h1
    IN  IF ch2 = condFalse
        THEN [resp |-> Response(StatusPreconditionFailed, h2, NoBody, 0), header |-> h2]
        ELSE IF ch3 = condFalse
                \/ (ch3 = condNone /\ checkIfModifiedSince(r, h, a) = condFalse)
        THEN [resp |-> Response(StatusNotModified, h2, NoBody, 0), header |-> h2]
        ELSE [resp |-> NoResp, header |-> h]

\* checkPreconditions: [resp, header]. resp is NoResp when the request may
\* proceed; header is the header map after the call (the 304 branch deletes
\* keys from the map the caller passed).
checkPreconditions(r, h, a) ==
    LET ch1 == checkIfMatch(r, h, a)
        ch2 == IF ch1 = condNone THEN checkIfUnmodifiedSince(r, h, a) ELSE ch1
        ch3 == checkIfNoneMatch(r, h, a)
        h1 == HeaderDel(HeaderDel(h, "Content-Type"), "Content-Length")
        h2 == IF HeaderGet(h1, "Etag") # <<>> THEN HeaderDel(h1, "Last-Modified") ELSE h1
    IN  IF ch2 = condFalse
        THEN [resp |-> Response(StatusPreconditionFailed, h, NoBody, 0), header |-> h]
        ELSE IF ch3 = condFalse
                \/ (ch3 = condNone /\ checkIfModifiedSince(r, h, a) = condFalse)
        THEN [resp |-> Response(StatusNotModified, h2, NoBody, 0), header |-> h2]
        ELSE [resp |-> NoResp, header |-> h]

(***************************************************************************)
(* makeHeader                                                              *)
(***************************************************************************)

HexDigits ==
    << "0", "1", "2", "3", "4", "5", "6", "7", "8", "9", "a", "b", "c", "d", "e", "f" >>

\* Mutant of HexEncode: upper-case digits.
RECURSIVE HexEncodeUpper(_)
HexEncodeUpper(bytes) ==
    IF bytes = <<>> THEN <<>>
    ELSE << << "0", "1", "2", "3", "4", "5", "6", "7", "8", "9",
               "A", "B", "C", "D", "E", "F" >>[(Head(bytes) \div 16) + 1],
            << "0", "1", "2", "3", "4", "5", "6", "7", "8", "9",
               "A", "B", "C", "D", "E", "F" >>[(Head(bytes) % 16) + 1] >>
         \o HexEncodeUpper(Tail(bytes))

\* hex.EncodeToString: two lower-case digits for each byte.
RECURSIVE HexEncode(_)
HexEncode(bytes) ==
    IF bytes = <<>> THEN <<>>
    ELSE << HexDigits[(Head(bytes) \div 16) + 1], HexDigits[(Head(bytes) % 16) + 1] >>
         \o HexEncode(Tail(bytes))

\* The alphabet of base64.StdEncoding.
Base64Alphabet ==
    << "A", "B", "C", "D", "E", "F", "G", "H", "I", "J", "K", "L", "M", "N", "O", "P",
       "Q", "R", "S", "T", "U", "V", "W", "X", "Y", "Z", "a", "b", "c", "d", "e", "f",
       "g", "h", "i", "j", "k", "l", "m", "n", "o", "p", "q", "r", "s", "t", "u", "v",
       "w", "x", "y", "z", "0", "1", "2", "3", "4", "5", "6", "7", "8", "9", "+", "/" >>

\* base64.StdEncoding.EncodeToString: four characters for every three
\* bytes, the last group padded with "=".
RECURSIVE Base64Encode(_)
Base64Encode(bytes) ==
    IF bytes = <<>> THEN <<>>
    ELSE IF Len(bytes) = 1
    THEN << Base64Alphabet[(bytes[1] \div 4) + 1],
            Base64Alphabet[((bytes[1] % 4) * 16) + 1], "=", "=" >>
    ELSE IF Len(bytes) = 2
    THEN << Base64Alphabet[(bytes[1] \div 4) + 1],
            Base64Alphabet[((bytes[1] % 4) * 16) + (bytes[2] \div 16) + 1],
            Base64Alphabet[((bytes[2] % 16) * 4) + 1], "=" >>
    ELSE << Base64Alphabet[(bytes[1] \div 4) + 1],
            Base64Alphabet[((bytes[1] % 4) * 16) + (bytes[2] \div 16) + 1],
            Base64Alphabet[((bytes[2] % 16) * 4) + (bytes[3] \div 64) + 1],
            Base64Alphabet[(bytes[3] % 64) + 1] >>
         \o Base64Encode(SubSeq(bytes, 4, Len(bytes)))

\* Mutant of PutUint32: the least significant byte first.
PutUint32LittleEndian(v) == << v[2] % 256, v[2] \div 256, v[1] % 256, v[1] \div 256 >>

\* binary.BigEndian.PutUint32: the four bytes of a 32-bit value, the most
\* significant first. The value is given as its two 16-bit halves <<hi, lo>>.
PutUint32(v) == << v[1] \div 256, v[1] % 256, v[2] \div 256, v[2] % 256 >>

\* The header key of one custom metadata entry.
MetaHeaderKey(key) == "x-goog-meta-" \o key

\* The range loop of makeHeader over attrs.Metadata, in the order `order` of
\* the keys (Go leaves the order of a map iteration unspecified).
RECURSIVE setMetadata(_, _, _)
setMetadata(h, metadata, order) ==
    IF order = <<>> THEN h
    ELSE setMetadata(HeaderSet(h, MetaHeaderKey(Head(order)), metadata[Head(order)]),
                     metadata, Tail(order))

\* Mutant of SetIf: the header is set also for a zero value.
SetAlways(present, h, k, v) == HeaderSet(h, k, v)

\* if present { header.Set(k, v) }
SetIf(present, h, k, v) == IF present THEN HeaderSet(h, k, v) ELSE h

\* if present { header.Add(k, v) }
AddIf(present, h, k, v) == IF present THEN HeaderAdd(h, k, v) ELSE h

\* makeHeader with the map iteration in the given order.
makeHeaderInOrder(a, order) ==
    LET h1 == SetIf(a.ContentType # <<>>, EmptyHeader, "Content-Type", a.ContentType)
        h2 == SetIf(a.ContentLanguage # <<>>, h1, "Content-Language", a.ContentLanguage)
        h3 == SetIf(a.CacheControl # <<>>, h2, "Cache-Control", a.CacheControl)
        h4 == SetIf(a.Size # 0, h3, "Content-Length", FormatInt(a.Size))
        h5 == SetIf(a.ContentEncoding # <<>>, h4, "Content-Encoding", a.ContentEncoding)
        h6 == SetIf(a.ContentDisposition # <<>>, h5, "Content-Disposition",
                    a.ContentDisposition)
        h7 == SetIf(~IsZero(a.Updated), h6, "Last-Modified", FormatHTTPTime(a.Updated))
        h8 == AddIf(Len(a.MD5) > 0, h7, "x-goog-hash",
                    << "m", "d", "5", "=" >> \o Base64Encode(a.MD5))
        h9 == SetIf(Len(a.MD5) > 0, h8, "ETag",
                    << "\"" >> \o HexEncode(a.MD5) \o << "\"" >>)
        h10 == HeaderAdd(h9, "x-goog-hash",
                         << "c", "r", "c", "3", "2", "c", "=" >>
                             \o Base64Encode(PutUint32(a.CRC32C)))
        h11 == SetIf(a.Generation # 0, h10, "x-goog-generation", FormatInt(a.Generation))
        h12 == SetIf(a.Metageneration # 0, h11, "x-goog-metageneration",
                     FormatInt(a.Metageneration))
        h13 == setMetadata(h12, a.Metadata, order)
        h14 == SetIf(a.Size # 0, h13, "x-goog-stored-content-length", FormatInt(a.Size))
        h15 == SetIf(a.ContentEncoding # <<>>, h14, "x-goog-stored-content-encoding",
                     a.ContentEncoding)
    IN  SetIf(a.StorageClass # <<>>, h15, "x-goog-storage-class", a.StorageClass)

\* The orders in which a range loop may visit the keys of a map.
IterationOrders(m) ==
    { o \in [1..Cardinality(DOMAIN m) -> DOMAIN m] :
        \A i, j \in 1..Cardinality(DOMAIN m) : i # j => o[i] # o[j] }

(***************************************************************************)
(* The object store and one request                                        *)
(***************************************************************************)

VARIABLES
    objects,     \* the generations of the object: objects[g] is generation g
    live,        \* the generation an unpinned handle resolves to (0: none)
    storeFault,  \* the condition of the store, which every call meets
    req,         \* the *http.Request
    pc,          \* where RoundTrip stands: "start", "open" (before NewReader), "done"
    object,      \* the objectHandle the request holds
    attrs,       \* the *storage.ObjectAttrs the request fetched
    header,      \* the http.Header the request built
    calls,       \* the calls the request made on the store client, in order
    resp,        \* the *http.Response RoundTrip returned
    err,         \* the error RoundTrip returned
    other,       \* the locals of a second RoundTrip call that is not running now
    etag,        \* the ETag scanETag returned
    remain       \* the remaining text scanETag returned

vars ==
    << objects, live, storeFault, req, pc, object, attrs, header, calls, resp, err,
       other, etag, remain >>

storeVars == << objects, live, storeFault >>

\* What a step of one RoundTrip call leaves alone: the locals of the other
\* call and the results of a call of scanETag on its own.
asideVars == << other, etag, remain >>

\* The most generations the object gets.
MaxGen == 2

\* The bucket and the object the store holds.
BucketName == T("bucket-name")
ObjectName == T("object-key")

\* The MD5 digest of an object's content (one byte stands for the sixteen).
MD5Hello == << 11 >>

\* storage.ObjectAttrs of a generation; Generation is filled in by the store.
Attrs(md5, updated, size, rich) ==
    [ContentType |-> IF rich THEN T("text/plain") ELSE <<>>,
     ContentLanguage |-> IF rich THEN T("ja-JP") ELSE <<>>,
     CacheControl |-> IF rich THEN T("public, max-age=60") ELSE <<>>,
     ContentEncoding |-> IF rich THEN T("identity") ELSE <<>>,
     ContentDisposition |-> IF rich THEN T("inline") ELSE <<>>,
     Updated |-> updated,
     Metadata |-> IF rich THEN [k \in {"foo"} |-> T("bar")] ELSE [k \in {} |-> <<>>],
     Size |-> size,
     Metageneration |-> IF rich THEN 5 ELSE 0,
     Generation |-> 0,
     MD5 |-> md5,
     CRC32C |-> IF rich THEN << 32630, 12258 >> ELSE << 0, 0 >>,
     StorageClass |-> IF rich THEN T("MULTI_REGIONAL") ELSE <<>>]

\* No attributes (a nil *storage.ObjectAttrs).
NoAttrs == Attrs(<<>>, 0, 0, FALSE)

\* What a writer may store as a new generation.
WriterAttrs ==
    { Attrs(MD5Hello, 2 * TicksPerSec, 3, TRUE),
      Attrs(<<>>, (2 * TicksPerSec) + 1, 0, FALSE) }

\* The object the store keeps for generation g written with attributes a:
\* Size bytes of content, each byte the generation number.
StoredObject(a, g) ==
    [attrs |-> [a EXCEPT !.Generation = g],
     content |-> [i \in 1..a.Size |-> g],
     deleted |-> FALSE]

\* The conditions of the store: working, its bucket gone, answering with
\* an API error, unreachable.
StoreFaults == { "none", "bucket gone", "api error", "unreachable" }

\* The error each failing condition of the store gives to a call.
FaultError(f) ==
    CASE f = "bucket gone" -> ErrBucketNotExist
      [] f = "api error" ->
            GoogleAPIError(400, T("bad request"),
                           HeaderSet(EmptyHeader, "Content-Type", T("application/json")))
      [] OTHER -> ErrTransport

\* A handle not pinned to a generation (storage: a negative generation).
Unpinned == -1

\* client.Bucket(host).Object(path)
Handle(bucket, name) == [bucket |-> bucket, name |-> name, gen |-> Unpinned]

\* Mutant of Generation: the handle returned is the receiver, unpinned.
GenerationNoPin(h, gen) == h

\* objectHandle.Generation
Generation(h, gen) == [h EXCEPT !.gen = gen]

\* The generation the store serves for a handle now (0: none).
Resolve(h) ==
    LET g == IF h.gen < 0 THEN live ELSE h.gen
    IN  IF h.bucket = BucketName /\ h.name = ObjectName
           /\ g \in 1..Len(objects) /\ ~objects[g].deleted
        THEN g ELSE 0

\* The error of a call on handle h, NoErr when the store serves it.
StoreError(h) ==
    IF storeFault # "none" THEN FaultError(storeFault)
    ELSE IF h.bucket # BucketName THEN ErrBucketNotExist
    ELSE IF Resolve(h) = 0 THEN ErrObjectNotExist
    ELSE NoErr

\* objectHandle.Attrs: [err, attrs]
StoreAttrs(h) ==
    IF StoreError(h) # NoErr THEN [err |-> StoreError(h), attrs |-> NoAttrs]
    ELSE [err |-> NoErr, attrs |-> objects[Resolve(h)].attrs]

\* objectHandle.NewReader: [err, body]; the body streams the content of the
\* generation the store resolved the handle to.
StoreNewReader(h) ==
    IF StoreError(h) # NoErr THEN [err |-> StoreError(h), body |-> NoBody]
    ELSE [err |-> NoErr,
          body |-> [kind |-> "reader", gen |-> Resolve(h),
                    data |-> objects[Resolve(h)].content]]

\* One entry of the call log: the operation, the generation the handle was
\* pinned to, and the generation the store served (0: none).
Call(op, h, served) == [op |-> op, gen |-> h.gen, served |-> served]

\* No objectHandle (nil).
NoHandle == [bucket |-> <<>>, name |-> <<>>, gen |-> Unpinned]

\* Mutant of attrsPinned: a failed Attrs call is tried a second time.
attrsPinnedRetry(h0, gen) ==
    LET h1 == Generation(h0, gen)
        got == StoreAttrs(h1)
    IN  [object |-> IF got.err # NoErr THEN NoHandle ELSE h1,
         attrs |-> got.attrs,
         err |-> got.err,
         calls |-> IF got.err # NoErr
                   THEN << Call("Generation", h1, 0), Call("Attrs", h1, 0),
                           Call("Attrs", h1, 0) >>
                   ELSE << Call("Generation", h1, 0),
                           Call("Attrs", h1, got.attrs.Generation) >>]

\* objectAttrs with a generation in the fragment: pin the handle, then
\* fetch the attributes of that generation.
attrsPinned(h0, gen) ==
    LET h1 == Generation(h0, gen)
        got == StoreAttrs(h1)
    IN  [object |-> IF got.err # NoErr THEN NoHandle ELSE h1,
         attrs |-> got.attrs,
         err |-> got.err,
         calls |-> << Call("Generation", h1, 0),
                      Call("Attrs", h1, got.attrs.Generation) >>]

\* Mutant of attrsLatest: the handle is left unpinned after the fetch.
attrsLatestNoRepin(h0) ==
    LET got == StoreAttrs(h0)
    IN  IF got.err # NoErr
        THEN [object |-> NoHandle, attrs |-> NoAttrs, err |-> got.err,
              calls |-> << Call("Attrs", h0, 0) >>]
        ELSE [object |-> h0, attrs |-> got.attrs, err |-> NoErr,
              calls |-> << Call("Attrs", h0, got.attrs.Generation) >>]

\* objectAttrs without a fragment: fetch the attributes of the latest
\* generation, then pin the handle to the generation they name.
attrsLatest(h0) ==
    LET got == StoreAttrs(h0)
        h1 == Generation(h0, got.attrs.Generation)
    IN  IF got.err # NoErr
        THEN [object |-> NoHandle, attrs |-> NoAttrs, err |-> got.err,
              calls |-> << Call("Attrs", h0, 0) >>]
        ELSE [object |-> h1, attrs |-> got.attrs, err |-> NoErr,
              calls |-> << Call("Attrs", h0, got.attrs.Generation),
                           Call("Generation", h1, 0) >>]

\* Transport.objectAttrs: [object, attrs, err, calls].
objectAttrs(r) ==
    LET host == IF r.Host = <<>> THEN r.URL.Host ELSE r.Host
        path == TrimPrefix(r.URL.Path, << "/" >>)
        h0 == Handle(host, path)
        resolve == << Call("Bucket", h0, 0), Call("Object", h0, 0) >>
        gen == ParseInt(r.URL.Fragment)
        got == IF r.URL.Fragment # <<>> THEN attrsPinned(h0, gen.val) ELSE attrsLatest(h0)
    IN  IF r.URL.Fragment # <<>> /\ ~gen.ok
        THEN [object |-> NoHandle, attrs |-> NoAttrs, err |-> ErrInvalidGeneration,
              calls |-> resolve]
        ELSE [got EXCEPT !.calls = resolve \o got.calls]

(***************************************************************************)
(* Requests                                                                *)
(***************************************************************************)

\* The ETag makeHeader derives from MD5Hello, and other tokens of an ETag list.
TagHello == << "\"", "0", "b", "\"" >>
TagWeakHello == << "W", "/", "\"", "0", "b", "\"" >>
TagOther == << "\"", "z", "z", "\"" >>
TagUnquoted == << "0", "b" >>

\* A request header with the four conditional headers; an empty text means
\* that the header is not sent.
ReqHeader(im, inm, ims, ius) ==
    LET h1 == SetIf(im # <<>>, EmptyHeader, "If-Match", im)
        h2 == SetIf(inm # <<>>, h1, "If-None-Match", inm)
        h3 == SetIf(ims # <<>>, h2, "If-Modified-Since", ims)
    IN  SetIf(ius # <<>>, h3, "If-Unmodified-Since", ius)

\* http.NewRequest(method, "gs://bucket-name/object-key#fragment")
Request(method, fragment, h) ==
    [Method |-> method, Host |-> BucketName,
     URL |-> [Host |-> BucketName, Path |-> << "/" >> \o ObjectName,
              Fragment |-> fragment],
     Header |-> h]

Methods == { "GET", "HEAD", "POST" }

\* URI fragments: none, each generation the object may get, and one that is
\* no number.
Fragments == { <<>>, << "x" >> } \cup { FormatNat(g) : g \in 1..MaxGen }

\* The requests issued while the store changes.
Requests ==
    { Request(m, f, ReqHeader(im, inm, <<>>, <<>>)) :
        m \in Methods, f \in Fragments,
        im \in { <<>>, TagHello }, inm \in { <<>>, TagHello } }

\* The most tokens in one If-Match or If-None-Match list.
MaxTokens == 2

\* The items of such a list: the object's ETag, its weak form, another
\* ETag, a token that is no ETag (it lacks the quotes), and the wildcard.
Star == << "*" >>
ListItems == { TagHello, TagWeakHello, TagOther, TagUnquoted, Star }

\* The lists of one to MaxTokens items.
ItemLists == UNION { [1..n -> ListItems] : n \in 1..MaxTokens }

\* The header value of a list: its items separated by a comma and a space.
RECURSIVE Join(_)
Join(items) ==
    IF Len(items) = 1 THEN items[1]
    ELSE items[1] \o << ",", " " >> \o Join(Tail(items))

\* The values of If-Match and If-None-Match: every list, or a few values.
ListValues == { Join(l) : l \in ItemLists }
FewValues == { <<>>, TagHello, TagOther, Star }

\* HTTP-dates: of the seconds 1 to 3, and a text that is no date.
DateOf(sec) == FormatNat(sec)
DateValues == { <<>>, << "x" >> } \cup { DateOf(sec) : sec \in 1..3 }

\* The attributes of the objects the precondition checks are run on: with
\* and without MD5; without modification time, modified at second 2 and
\* modified one tick after second 2.
CondAttrs ==
    { Attrs(md5, updated, 3, TRUE) :
        md5 \in { <<>>, MD5Hello },
        updated \in { 0, 2 * TicksPerSec, (2 * TicksPerSec) + 1 } }
    \cup { Attrs(<<>>, 0, 0, FALSE) }

\* The conditional requests: every If-Match list with a few values of the
\* other headers, every If-None-Match list likewise, and every pair of
\* dates with a few values of If-Match and If-None-Match.
CondHeaders ==
    { ReqHeader(im, inm, ims, ius) :
        im \in ListValues, inm \in FewValues,
        ims \in { <<>>, DateOf(2) }, ius \in { <<>>, DateOf(1) } }
    \cup { ReqHeader(im, inm, ims, <<>>) :
        im \in FewValues, inm \in ListValues,
        ims \in { <<>>, DateOf(1), DateOf(2) } }
    \cup { ReqHeader(im, inm, ims, ius) :
        im \in { <<>>, TagHello, TagOther }, inm \in { <<>>, TagHello, TagOther },
        ims \in DateValues, ius \in DateValues }

CondRequests == { Request(m, <<>>, h) : m \in { "GET", "HEAD" }, h \in CondHeaders }

(***************************************************************************)
(* The actions of the store                                                *)
(***************************************************************************)

\* A writer overwrites the object: a new generation becomes the live one.
Overwrite ==
    /\ pc # "done"
    /\ Len(objects) < MaxGen
    /\ \E a \in WriterAttrs :
          objects' = Append(objects, StoredObject(a, Len(objects) + 1))
    /\ live' = Len(objects) + 1
    /\ UNCHANGED << asideVars, storeFault, req, pc, object, attrs, header, calls, resp, err >>

\* A writer deletes one generation of the object.
DeleteGeneration ==
    /\ pc # "done"
    /\ \E g \in 1..Len(objects) :
          /\ ~objects[g].deleted
          /\ objects' = [objects EXCEPT ![g].deleted = TRUE]
          /\ live' = IF live = g THEN 0 ELSE live
    /\ UNCHANGED << asideVars, storeFault, req, pc, object, attrs, header, calls, resp, err >>

\* The condition of the store changes.
StoreCondition ==
    /\ pc # "done"
    /\ \E f \in StoreFaults \ { storeFault } : storeFault' = f
    /\ UNCHANGED << asideVars, objects, live, req, pc, object, attrs, header, calls, resp, err >>

(***************************************************************************)
(* The actions of RoundTrip                                                *)
(***************************************************************************)

\* Mutant of MethodNotAllowed: the bucket and the object are resolved before
\* the method is looked at.
MethodNotAllowedAfterResolve ==
    /\ pc = "start"
    /\ req.Method \notin { "GET", "HEAD" }
    /\ resp' = Response(StatusMethodNotAllowed, EmptyHeader, NoBody, 0)
    /\ err' = NoErr
    /\ pc' = "done"
    /\ calls' = << Call("Bucket", NoHandle, 0), Call("Object", NoHandle, 0) >>
    /\ UNCHANGED << asideVars, storeVars, req, object, attrs, header >>

\* RoundTrip for a method other than GET and HEAD.
MethodNotAllowed ==
    /\ pc = "start"
    /\ req.Method \notin { "GET", "HEAD" }
    /\ resp' = Response(StatusMethodNotAllowed, EmptyHeader, NoBody, 0)
    /\ err' = NoErr
    /\ pc' = "done"
    /\ UNCHANGED << asideVars, storeVars, req, object, attrs, header, calls >>

\* getObject up to the call of NewReader: objectAttrs, handleError,
\* makeHeader, checkPreconditions.
GetObject ==
    /\ pc = "start"
    /\ req.Method = "GET"
    /\ LET oa == objectAttrs(req)
       IN  /\ object' = oa.object
           /\ attrs' = oa.attrs
           /\ calls' = oa.calls
           /\ IF oa.err # NoErr
              THEN /\ resp' = handleError(oa.err)[1]
                   /\ err' = handleError(oa.err)[2]
                   /\ header' = EmptyHeader
                   /\ pc' = "done"
              ELSE \E order \in IterationOrders(oa.attrs.Metadata) :
                      LET pre == checkPreconditions(
                                     req, makeHeaderInOrder(oa.attrs, order), oa.attrs)
                      IN  /\ header' = pre.header
                          /\ resp' = pre.resp
                          /\ err' = NoErr
                          /\ pc' = IF pre.resp # NoResp THEN "done" ELSE "open"
    /\ UNCHANGED << asideVars, storeVars, req >>

\* storageReader.Attrs: the attributes the store held for the generation of
\* the stream when the stream was opened (the store has not changed since).
ReaderSnapshot(body) ==
    LET a == objects[body.gen].attrs
    IN  [ContentType |-> a.ContentType, ContentEncoding |-> a.ContentEncoding,
         CacheControl |-> a.CacheControl, Size |-> a.Size, Generation |-> a.Generation,
         Metageneration |-> a.Metageneration, LastModified |-> a.Updated]

\* Mutant of GetObjectOpen: Content-Type is taken from the attributes of the
\* reader.
GetObjectOpenReaderContentType ==
    /\ pc = "open"
    /\ LET r == StoreNewReader(object)
       IN  /\ calls' = Append(calls, Call("NewReader", object, r.body.gen))
           /\ IF r.err # NoErr
              THEN /\ resp' = NoResp
                   /\ err' = r.err
              ELSE /\ resp' = Response(StatusOK,
                                       SetIf(ReaderSnapshot(r.body).ContentType # <<>>,
                                             HeaderDel(header, "Content-Type"),
                                             "Content-Type",
                                             ReaderSnapshot(r.body).ContentType),
                                       r.body, attrs.Size)
                   /\ err' = NoErr
    /\ pc' = "done"
    /\ UNCHANGED << asideVars, storeVars, req, object, attrs, header >>

\* Mutant of GetObjectOpen: the 200 response does not carry the stream that
\* was opened.
GetObjectOpenDropsStream ==
    /\ pc = "open"
    /\ LET r == StoreNewReader(object)
       IN  /\ calls' = Append(calls, Call("NewReader", object, r.body.gen))
           /\ IF r.err # NoErr
              THEN /\ resp' = NoResp
                   /\ err' = r.err
              ELSE /\ resp' = Response(StatusOK, header, NoBody, attrs.Size)
                   /\ err' = NoErr
    /\ pc' = "done"
    /\ UNCHANGED << asideVars, storeVars, req, object, attrs, header >>

\* getObject from the call of NewReader on.
GetObjectOpen ==
    /\ pc = "open"
    /\ LET r == StoreNewReader(object)
       IN  /\ calls' = Append(calls, Call("NewReader", object, r.body.gen))
           /\ IF r.err # NoErr
              THEN /\ resp' = NoResp
                   /\ err' = r.err
              ELSE /\ resp' = Response(StatusOK, header, r.body, attrs.Size)
                   /\ err' = NoErr
    /\ pc' = "done"
    /\ UNCHANGED << asideVars, storeVars, req, object, attrs, header >>

\* headObject.
HeadObject ==
    /\ pc = "start"
    /\ req.Method = "HEAD"
    /\ LET oa == objectAttrs(req)
       IN  /\ object' = oa.object
           /\ attrs' = oa.attrs
           /\ calls' = oa.calls
           /\ IF oa.err # NoErr
              THEN /\ resp' = handleError(oa.err)[1]
                   /\ err' = handleError(oa.err)[2]
                   /\ header' = EmptyHeader
              ELSE \E order \in IterationOrders(oa.attrs.Metadata) :
                      LET pre == checkPreconditions(
                                     req, makeHeaderInOrder(oa.attrs, order), oa.attrs)
                      IN  /\ header' = pre.header
                          /\ resp' = IF pre.resp # NoResp THEN pre.resp
                                     ELSE Response(StatusOK, pre.header, NoBody, 0)
                          /\ err' = NoErr
    /\ pc' = "done"
    /\ UNCHANGED << asideVars, storeVars, req >>

\* The locals of a RoundTrip call that was not made.
NoCall ==
    [req |-> Request("", <<>>, EmptyHeader), pc |-> "none", object |-> NoHandle,
     attrs |-> NoAttrs, header |-> EmptyHeader, calls |-> <<>>, resp |-> NoResp,
     err |-> NoErr]

(***************************************************************************)
(* Specification: one request against a store that changes under it        *)
(***************************************************************************)

Init ==
    /\ \E a \in WriterAttrs : objects = << StoredObject(a, 1) >>
    /\ live = 1
    /\ storeFault = "none"
    /\ req \in Requests
    /\ pc = "start"
    /\ object = NoHandle
    /\ attrs = NoAttrs
    /\ header = EmptyHeader
    /\ calls = <<>>
    /\ resp = NoResp
    /\ err = NoErr
    /\ other = NoCall
    /\ etag = <<>>
    /\ remain = <<>>

Next ==
    \/ Overwrite
    \/ DeleteGeneration
    \/ StoreCondition
    \/ MethodNotAllowed
    \/ GetObject
    \/ GetObjectOpen
    \/ HeadObject

Spec == Init /\ [][Next]_vars

(***************************************************************************)
(* Specification: conditional requests against a store at rest             *)
(***************************************************************************)

InitCond ==
    /\ \E a \in CondAttrs : objects = << StoredObject(a, 1) >>
    /\ live = 1
    /\ storeFault = "none"
    /\ req \in CondRequests
    /\ pc = "start"
    /\ object = NoHandle
    /\ attrs = NoAttrs
    /\ header = EmptyHeader
    /\ calls = <<>>
    /\ resp = NoResp
    /\ err = NoErr
    /\ other = NoCall
    /\ etag = <<>>
    /\ remain = <<>>

NextCond ==
    \/ GetObject
    \/ GetObjectOpen
    \/ HeadObject

SpecCond == InitCond /\ [][NextCond]_vars

(***************************************************************************)
(* Specification: a GET, then a HEAD of the same request, the store at rest *)
(***************************************************************************)

\* The GET requests that are repeated as HEAD: each fragment with a few
\* values of the conditional headers.
PairRequests ==
    { Request("GET", f, ReqHeader(im, inm, ims, ius)) :
        f \in Fragments,
        im \in { <<>>, TagHello, TagOther }, inm \in { <<>>, TagHello, TagOther },
        ims \in { <<>>, DateOf(2) }, ius \in { <<>>, DateOf(1) } }

\* The client sends the request it got an answer to once more, as a HEAD;
\* the answer to the GET stays in resp and err until the HEAD is answered.
HeadOfSameRequest ==
    /\ pc = "done"
    /\ req.Method = "GET"
    /\ req' = [req EXCEPT !.Method = "HEAD"]
    /\ pc' = "start"
    /\ UNCHANGED << asideVars, storeVars, object, attrs, header, calls, resp, err >>

InitPair ==
    /\ \E a \in WriterAttrs, gone \in BOOLEAN :
          objects = << [StoredObject(a, 1) EXCEPT !.deleted = gone] >>
    /\ live = IF objects[1].deleted THEN 0 ELSE 1
    /\ storeFault \in StoreFaults
    /\ req \in PairRequests
    /\ pc = "start"
    /\ object = NoHandle
    /\ attrs = NoAttrs
    /\ header = EmptyHeader
    /\ calls = <<>>
    /\ resp = NoResp
    /\ err = NoErr
    /\ other = NoCall
    /\ etag = <<>>
    /\ remain = <<>>

NextPair ==
    \/ GetObject
    \/ GetObjectOpen
    \/ HeadOfSameRequest
    \/ HeadObject

SpecPair == InitPair /\ [][NextPair]_vars

(***************************************************************************)
(* Specification: makeHeader on the attributes of an object, twice         *)
(***************************************************************************)

\* The MD5 digest of the tests' object.
MD5Fixture == << 11, 70, 243, 6, 233, 45, 136, 81, 94, 6, 212, 138, 98, 220, 195, 25 >>

\* Custom metadata maps: none, one entry, two entries, and two entries whose
\* keys differ in case only.
MetadataMaps ==
    { [k \in {} |-> <<>>],
      [k \in { "foo" } |-> T("bar")],
      [k \in { "foo", "bar" } |-> IF k = "foo" THEN T("bar") ELSE T("baz")],
      [k \in { "foo", "Foo" } |-> IF k = "foo" THEN T("bar") ELSE T("baz")] }

\* storage.ObjectAttrs whose text attributes are those of the tests' object
\* where `set` names them and empty elsewhere.
TextAttrs(set) ==
    [ContentType |-> IF "ContentType" \in set THEN T("text/plain") ELSE <<>>,
     ContentLanguage |-> IF "ContentLanguage" \in set THEN T("ja-JP") ELSE <<>>,
     CacheControl |-> IF "CacheControl" \in set THEN T("public, max-age=60") ELSE <<>>,
     ContentEncoding |-> IF "ContentEncoding" \in set THEN T("identity") ELSE <<>>,
     ContentDisposition |-> IF "ContentDisposition" \in set THEN T("inline") ELSE <<>>,
     StorageClass |-> IF "StorageClass" \in set THEN T("MULTI_REGIONAL") ELSE <<>>,
     Updated |-> 0, Metadata |-> [k \in {} |-> <<>>], Size |-> 0, Metageneration |-> 0,
     Generation |-> 0, MD5 |-> <<>>, CRC32C |-> << 0, 0 >>]

TextAttrNames ==
    { "ContentType", "ContentLanguage", "CacheControl", "ContentEncoding",
      "ContentDisposition", "StorageClass" }

\* The attributes makeHeader is run on: no, one, all but one and all text
\* attributes with every mix of zero and non-zero numbers and times; and
\* every digest, checksum and metadata map with no and all text attributes.
HeaderAttrs ==
    { [TextAttrs(set) EXCEPT !.Size = size, !.Generation = gen,
                             !.Metageneration = metagen, !.Updated = updated] :
        set \in { {}, TextAttrNames } \cup { { n } : n \in TextAttrNames }
                    \cup { TextAttrNames \ { n } : n \in TextAttrNames },
        size \in { 0, 3, 12 }, gen \in { 0, 7 }, metagen \in { 0, 5 },
        updated \in { 0, 2 * TicksPerSec, (2 * TicksPerSec) + 1 } }
    \cup
    { [TextAttrs(set) EXCEPT !.MD5 = md5, !.CRC32C = crc, !.Metadata = meta] :
        set \in { {}, TextAttrNames },
        md5 \in { <<>>, MD5Hello, << 0, 255 >>, << 171, 205, 239 >>, MD5Fixture },
        crc \in { << 0, 0 >>, << 32630, 12258 >>, << 1, 2 >>, << 65535, 65535 >> },
        meta \in MetadataMaps }

\* makeHeader(attrs): the first call, then a second call on the same
\* attributes.
MakeHeader ==
    /\ pc \in { "start", "made" }
    /\ \E order \in IterationOrders(attrs.Metadata) :
          header' = makeHeaderInOrder(attrs, order)
    /\ pc' = IF pc = "start" THEN "made" ELSE "again"
    /\ UNCHANGED << asideVars, storeVars, req, object, attrs, calls, resp, err >>

InitHeader ==
    /\ objects = <<>>
    /\ live = 0
    /\ storeFault = "none"
    /\ req = Request("GET", <<>>, EmptyHeader)
    /\ pc = "start"
    /\ object = NoHandle
    /\ attrs \in HeaderAttrs
    /\ header = EmptyHeader
    /\ calls = <<>>
    /\ resp = NoResp
    /\ err = NoErr
    /\ other = NoCall
    /\ etag = <<>>
    /\ remain = <<>>

NextHeader == MakeHeader

SpecHeader == InitHeader /\ [][NextHeader]_vars

(***************************************************************************)
(* Specification: requests with any host and path, the store at rest       *)
(***************************************************************************)

OtherBucket == T("other-bucket")

\* Requests whose transport-level host is empty, the bucket or another
\* bucket, whose URI authority is the bucket or another bucket, and whose
\* path is the object key after one slash, after no slash, after two
\* slashes, a slash alone, or empty.
LocatorRequests ==
    { [Method |-> m, Host |-> host,
       URL |-> [Host |-> authority, Path |-> path, Fragment |-> f],
       Header |-> EmptyHeader] :
        m \in { "GET", "HEAD" },
        host \in { <<>>, BucketName, OtherBucket },
        authority \in { BucketName, OtherBucket },
        path \in { << "/" >> \o ObjectName, ObjectName, << "/", "/" >> \o ObjectName,
                   << "/" >>, <<>> },
        f \in { <<>>, FormatNat(1) } }

InitLocator ==
    /\ \E a \in WriterAttrs : objects = << StoredObject(a, 1) >>
    /\ live = 1
    /\ storeFault = "none"
    /\ req \in LocatorRequests
    /\ pc = "start"
    /\ object = NoHandle
    /\ attrs = NoAttrs
    /\ header = EmptyHeader
    /\ calls = <<>>
    /\ resp = NoResp
    /\ err = NoErr
    /\ other = NoCall
    /\ etag = <<>>
    /\ remain = <<>>

NextLocator ==
    \/ GetObject
    \/ GetObjectOpen
    \/ HeadObject

SpecLocator == InitLocator /\ [][NextLocator]_vars

(***************************************************************************)
(* Specification: one request while the metadata of the object is patched  *)
(***************************************************************************)

\* The content type a patch gives to an object.
PatchedContentType == T("application/json")

\* A writer patches the metadata of a generation: the content type changes
\* and the metageneration grows, the generation and the content stay.
PatchMetadata ==
    /\ pc # "done"
    /\ \E g \in 1..Len(objects) :
          /\ ~objects[g].deleted
          /\ objects[g].attrs.ContentType # PatchedContentType
          /\ objects' = [objects EXCEPT
                            ![g].attrs.ContentType = PatchedContentType,
                            ![g].attrs.Metageneration = @ + 1]
    /\ UNCHANGED << asideVars, live, storeFault, req, pc, object, attrs, header, calls, resp, err >>

PatchRequests ==
    { Request(m, f, ReqHeader(im, inm, <<>>, <<>>)) :
        m \in { "GET", "HEAD" }, f \in { <<>>, FormatNat(1) },
        im \in { <<>>, TagHello }, inm \in { <<>>, TagHello } }

InitPatch ==
    /\ \E a \in WriterAttrs : objects = << StoredObject(a, 1) >>
    /\ live = 1
    /\ storeFault = "none"
    /\ req \in PatchRequests
    /\ pc = "start"
    /\ object = NoHandle
    /\ attrs = NoAttrs
    /\ header = EmptyHeader
    /\ calls = <<>>
    /\ resp = NoResp
    /\ err = NoErr
    /\ other = NoCall
    /\ etag = <<>>
    /\ remain = <<>>

NextPatch ==
    \/ PatchMetadata
    \/ GetObject
    \/ GetObjectOpen
    \/ HeadObject

SpecPatch == InitPatch /\ [][NextPatch]_vars

(***************************************************************************)
(* Properties of the sequence of store calls                               *)
(***************************************************************************)

\* The calls of one operation, in the order they were made.
CallsOf(op) == SelectSeq(calls, LAMBDA c : c.op = op)

\* The positions of the calls of one operation in the call log.
PositionsOf(op) == { i \in 1..Len(calls) : calls[i].op = op }

IsFetch == req.Method \in { "GET", "HEAD" }

\* The generation the fragment names, when it is the decimal text of one.
FragmentNames(g) == req.URL.Fragment = FormatNat(g)

\* C1: a GET without fragment fetches the attributes through the unpinned
\* handle, then pins the handle to the generation the attributes name, and
\* opens the stream last and through the pinned handle. Whatever writers do
\* in between, a 200 response streams the content of the generation its
\* headers were made from.
C1_StreamOfFetchedGeneration ==
    (req.Method = "GET" /\ req.URL.Fragment = <<>> /\ PositionsOf("NewReader") # {})
        => /\ \E i, j, k \in 1..Len(calls) :
                /\ i < j /\ j < k
                /\ calls[i].op = "Attrs" /\ calls[i].gen = Unpinned
                /\ calls[j].op = "Generation" /\ calls[j].gen = calls[i].served
                /\ calls[k].op = "NewReader" /\ calls[k].gen = calls[i].served
                /\ calls[i].served = attrs.Generation
           /\ resp.StatusCode = StatusOK
                => /\ resp.Body.gen = attrs.Generation
                   /\ resp.Body.data = objects[attrs.Generation].content
                   /\ HeaderGet(resp.Header, "x-goog-generation")
                         = FormatNat(resp.Body.gen)

\* C1 witness: a 200 for a GET without fragment whose object was overwritten
\* after the attributes were fetched.
C1_Witness ==
    /\ req.Method = "GET" /\ req.URL.Fragment = <<>>
    /\ pc = "done" /\ resp.StatusCode = StatusOK
    /\ live # 0 /\ live # resp.Body.gen

C3_Original ==
    (IsFetch /\ pc = "done") => Len(CallsOf("Attrs")) = 1

\* C3 amended: a GET or HEAD request makes exactly one Attrs call, except
\* that a request whose fragment is not empty and is no number makes none;
\* after a failed Attrs call the request makes no further call.
C3_OneFetchUnlessBadFragment ==
    (IsFetch /\ pc # "start")
        => /\ Len(CallsOf("Attrs"))
                = (IF req.URL.Fragment = <<>> \/ \E g \in 1..MaxGen : FragmentNames(g)
                   THEN 1 ELSE 0)
           /\ \A i \in 1..Len(calls) :
                (calls[i].op = "Attrs" /\ calls[i].served = 0)
                    => /\ i = Len(calls)
                       /\ pc = "done"
                       /\ resp.StatusCode # StatusOK

\* C3 witness: a request ended by its one failed Attrs call.
C3_Witness ==
    /\ IsFetch /\ pc = "done"
    /\ Len(CallsOf("Attrs")) = 1
    /\ CallsOf("Attrs")[1].served = 0
    /\ storeFault = "unreachable"
    /\ err = ErrTransport

\* The requests of Requests whose preconditions let them proceed on an
\* object with the fetched attributes: If-Match is absent or names the
\* object's ETag, and If-None-Match is absent or the object has another ETag.
ProceedExpected ==
    /\ HeaderGet(req.Header, "If-Match") # <<>> => attrs.MD5 = MD5Hello
    /\ HeaderGet(req.Header, "If-None-Match") # <<>> => attrs.MD5 # MD5Hello

\* C4: NewReader is called at most once, only by a GET, only as the last
\* call, after an Attrs call that succeeded and only when the preconditions
\* let the request proceed; a response other than 200 comes with no
\* NewReader call.
C4_StreamOpenedOnlyToProceed ==
    /\ Cardinality(PositionsOf("NewReader")) <= 1
    /\ \A k \in PositionsOf("NewReader") :
          /\ req.Method = "GET"
          /\ k = Len(calls)
          /\ \E i \in 1..(k - 1) : calls[i].op = "Attrs" /\ calls[i].served # 0
          /\ ProceedExpected
          /\ resp.StatusCode \in { 0, StatusOK }
    /\ (pc = "done" /\ resp.StatusCode \notin { 0, StatusOK })
          => PositionsOf("NewReader") = {}
    /\ (pc = "done" /\ req.Method = "HEAD") => PositionsOf("NewReader") = {}

\* C4 witness: both cases, a GET answered 200 after its one NewReader call
\* or a GET answered 304 without one.
C4_Witness ==
    /\ pc = "done" /\ req.Method = "GET"
    /\ resp.StatusCode = StatusNotModified
    /\ PositionsOf("NewReader") = {}
    /\ Len(CallsOf("Attrs")) = 1

(***************************************************************************)
(* Properties of the precondition checks                                   *)
(***************************************************************************)

\* What RFC 7232 says of a list item, of the lists and of the object's ETag,
\* stated without the code's scanner.

\* A quoted string: no space and no quote between its two quotes.
IsQuotedString(t) ==
    /\ Len(t) >= 2
    /\ t[1] = "\"" /\ t[Len(t)] = "\""
    /\ \A i \in 2..(Len(t) - 1) : t[i] \notin { "\"", " " }

IsWeakTag(t) ==
    Len(t) >= 2 /\ t[1] = "W" /\ t[2] = "/" /\ IsQuotedString(SubSeq(t, 3, Len(t)))

IsEntityTag(t) == IsQuotedString(t) \/ IsWeakTag(t)

\* The quoted string of an entity tag.
OpaqueTag(t) == IF IsWeakTag(t) THEN SubSeq(t, 3, Len(t)) ELSE t

\* The positions of a list that are read: those up to the first item that
\* is no entity tag.
Listed(items) ==
    { i \in 1..Len(items) : \A j \in 1..i : IsEntityTag(items[j]) }

\* The lists without wildcard item.
TagLists == { l \in ItemLists : \A i \in 1..Len(l) : l[i] # Star }

\* The ETag of the object whose attributes were fetched: MD5Hello is the
\* byte 0x0b, in hex "0b".
ObjectETag == IF attrs.MD5 = MD5Hello THEN TagHello ELSE <<>>

HasStrongMatch(items) ==
    \E i \in Listed(items) : IsQuotedString(items[i]) /\ items[i] = ObjectETag

HasWeakMatch(items) ==
    \E i \in Listed(items) :
        ObjectETag # <<>> /\ OpaqueTag(items[i]) = OpaqueTag(ObjectETag)

IfMatchValue == HeaderGet(req.Header, "If-Match")
IfNoneMatchValue == HeaderGet(req.Header, "If-None-Match")
IfModifiedSinceValue == HeaderGet(req.Header, "If-Modified-Since")
IfUnmodifiedSinceValue == HeaderGet(req.Header, "If-Unmodified-Since")

\* RoundTrip has returned a response.
Answered == pc = "done" /\ err = NoErr

\* A 200 response of a GET with the whole content, of a HEAD without body.
FullResponse ==
    /\ resp.StatusCode = StatusOK
    /\ req.Method = "GET" => resp.Body.data = objects[attrs.Generation].content
    /\ req.Method = "HEAD" => resp.Body = NoBody

\* The first stage fails: If-Match is a list without wildcard none of whose
\* read items strong-matches; or there is no If-Match, the object has a
\* modification time and If-Unmodified-Since is a date before the second of
\* that time.
FirstStageFails ==
    \/ \E l \in TagLists : Join(l) = IfMatchValue /\ ~HasStrongMatch(l)
    \/ /\ IfMatchValue = <<>>
       /\ attrs.Updated # 0
       /\ \E sec \in 1..3 :
             /\ IfUnmodifiedSinceValue = DateOf(sec)
             /\ sec < attrs.Updated \div TicksPerSec

\* If-None-Match alone would give 304: it is the wildcard or a list without
\* wildcard with a read item that weak-matches.
IfNoneMatchFails ==
    \/ IfNoneMatchValue = Star
    \/ \E l \in TagLists : Join(l) = IfNoneMatchValue /\ HasWeakMatch(l)

\* C5: when the first stage (If-Match, else If-Unmodified-Since) fails the
\* response is 412 whatever If-None-Match and If-Modified-Since are; a 304
\* is given only when the first stage does not fail.
C5_FirstStageDecidedFirst ==
    Answered
        => /\ FirstStageFails => resp.StatusCode = StatusPreconditionFailed
           /\ resp.StatusCode = StatusNotModified => ~FirstStageFails

\* C5 witness: a 412 for a request whose If-None-Match names the object's
\* ETag and whose If-Modified-Since is not before the modification time.
C5_Witness ==
    /\ Answered
    /\ FirstStageFails /\ IfNoneMatchFails
    /\ IfModifiedSinceValue = DateOf(2) /\ attrs.Updated # 0
    /\ resp.StatusCode = StatusPreconditionFailed

\* C6: when If-Match is a list of tokens without wildcard, the response is
\* 412 with an empty body if and only if no token of the list, read up to
\* the first that is no entity tag, strong-matches the object's ETag; with
\* a matching token and no other conditional header the response is 200.
C6_IfMatchList ==
    \A l \in TagLists :
        (Answered /\ Join(l) = IfMatchValue)
            => /\ resp.StatusCode = StatusPreconditionFailed <=> ~HasStrongMatch(l)
               /\ resp.StatusCode = StatusPreconditionFailed => resp.Body = NoBody
               /\ (HasStrongMatch(l) /\ IfNoneMatchValue = <<>>
                      /\ IfModifiedSinceValue = <<>>) => FullResponse

\* C6 witness: a 200 for If-Match: "zz", "0b" on the object with ETag "0b".
C6_Witness ==
    /\ Answered /\ req.Method = "GET"
    /\ IfMatchValue = Join(<< TagOther, TagHello >>)
    /\ ObjectETag = TagHello
    /\ FullResponse

\* C7: a request with If-Match: * is never answered 412, whatever the ETag
\* of the object and whatever If-Unmodified-Since.
C7_IfMatchStar ==
    (Answered /\ TrimString(IfMatchValue) = Star)
        => resp.StatusCode # StatusPreconditionFailed

\* C7 witness: a 200 for If-Match: * on an object without MD5, with an
\* If-Unmodified-Since before the modification time.
C7_Witness ==
    /\ Answered
    /\ IfMatchValue = Star
    /\ attrs.MD5 = <<>>
    /\ IfUnmodifiedSinceValue = DateOf(1) /\ attrs.Updated = 2 * TicksPerSec
    /\ resp.StatusCode = StatusOK

\* C8: when the first stage does not fail and If-None-Match is the wildcard
\* or a list of tokens without wildcard, the response is 304 with an empty
\* body if and only if it is the wildcard or a token of the list, read up to
\* the first that is no entity tag, weak-matches the object's ETag;
\* otherwise it is the 200 response.
C8_IfNoneMatchList ==
    \A l \in TagLists \cup { << Star >> } :
        (Answered /\ Join(l) = IfNoneMatchValue
                /\ resp.StatusCode # StatusPreconditionFailed)
            => /\ resp.StatusCode = StatusNotModified <=> (l = << Star >> \/ HasWeakMatch(l))
               /\ resp.StatusCode = StatusNotModified => resp.Body = NoBody
               /\ resp.StatusCode # StatusNotModified => FullResponse

\* C8 witness: a 304 for If-None-Match: "zz", W/"0b" on the object with
\* ETag "0b".
C8_Witness ==
    /\ Answered
    /\ IfNoneMatchValue = Join(<< TagOther, TagWeakHello >>)
    /\ ObjectETag = TagHello
    /\ resp.StatusCode = StatusNotModified /\ resp.Body = NoBody

\* The request with its If-Modified-Since header set to v (removed when v
\* is empty).
WithIfModifiedSince(r, v) ==
    [r EXCEPT !.Header =
        SetIf(v # <<>>, HeaderDel(r.Header, "If-Modified-Since"), "If-Modified-Since", v)]

\* The outcome of the precondition checks for request r on the fetched
\* attributes: the status of the response, 0 to proceed, and the header.
Decision(r) ==
    LET out == checkPreconditions(
                   r,
                   makeHeaderInOrder(attrs, CHOOSE o \in IterationOrders(attrs.Metadata) : TRUE),
                   attrs)
    IN  << out.resp.StatusCode, out.header >>

\* C9: with an If-None-Match header, the response does not depend on
\* If-Modified-Since: it is the one every other value of If-Modified-Since,
\* and its absence, lead to.
C9_IfModifiedSinceIgnored ==
    (Answered /\ IfNoneMatchValue # <<>>)
        => \A v \in DateValues :
              Decision(WithIfModifiedSince(req, v))
                  = << IF resp.StatusCode = StatusOK THEN 0 ELSE resp.StatusCode,
                       resp.Header >>

\* C9 witness: a 200 for a request whose If-None-Match does not match and
\* whose If-Modified-Since is the second of the modification time.
C9_Witness ==
    /\ Answered
    /\ IfNoneMatchValue = TagOther
    /\ IfModifiedSinceValue = DateOf(2) /\ attrs.Updated = 2 * TicksPerSec
    /\ resp.StatusCode = StatusOK

\* C10: without If-None-Match, when the first stage does not fail and the
\* object has a modification time, an If-Modified-Since date gives 304 if
\* and only if the second of the modification time is not after the date,
\* and the 200 response otherwise.
C10_IfModifiedSince ==
    \A sec \in 1..3 :
        (Answered /\ IfNoneMatchValue = <<>> /\ IfModifiedSinceValue = DateOf(sec)
                /\ attrs.Updated # 0 /\ resp.StatusCode # StatusPreconditionFailed)
            => /\ resp.StatusCode = StatusNotModified
                    <=> attrs.Updated \div TicksPerSec <= sec
               /\ resp.StatusCode # StatusNotModified => FullResponse

\* C10 witness: a 304 for If-Modified-Since of second 2 on an object
\* modified one tick after second 2.
C10_Witness ==
    /\ Answered
    /\ IfNoneMatchValue = <<>> /\ IfModifiedSinceValue = DateOf(2)
    /\ attrs.Updated = (2 * TicksPerSec) + 1
    /\ resp.StatusCode = StatusNotModified

\* If-Match alone is satisfied: it is the wildcard or a list without
\* wildcard with a read item that strong-matches.
IfMatchSatisfied ==
    \/ IfMatchValue = Star
    \/ \E l \in TagLists : Join(l) = IfMatchValue /\ HasStrongMatch(l)

\* C11: without If-Match, on an object with a modification time, an
\* If-Unmodified-Since date gives 412 if and only if the date is before the
\* second of the modification time; when the date is that second or later
\* and there is no If-None-Match and no If-Modified-Since, the response is
\* the 200 response.
C11_IfUnmodifiedSince ==
    \A sec \in 1..3 :
        (Answered /\ IfMatchValue = <<>> /\ IfUnmodifiedSinceValue = DateOf(sec)
                /\ attrs.Updated # 0)
            => /\ resp.StatusCode = StatusPreconditionFailed
                    <=> sec < attrs.Updated \div TicksPerSec
               /\ (sec >= attrs.Updated \div TicksPerSec
                      /\ IfNoneMatchValue = <<>> /\ IfModifiedSinceValue = <<>>)
                    => FullResponse

\* C11 witness: a 200 for If-Unmodified-Since of second 2 on an object
\* modified one tick after second 2.
C11_Witness ==
    /\ Answered
    /\ IfMatchValue = <<>> /\ IfUnmodifiedSinceValue = DateOf(2)
    /\ attrs.Updated = (2 * TicksPerSec) + 1
    /\ FullResponse

\* The request with its If-Unmodified-Since header set to v (removed when v
\* is empty).
WithIfUnmodifiedSince(r, v) ==
    [r EXCEPT !.Header =
        SetIf(v # <<>>, HeaderDel(r.Header, "If-Unmodified-Since"),
              "If-Unmodified-Since", v)]

\* C12: with an If-Match header the response does not depend on
\* If-Unmodified-Since: it is the one every other value of
\* If-Unmodified-Since, and its absence, lead to; and when If-Match is
\* satisfied, an If-Unmodified-Since date before the modification time gives
\* no 412.
C12_IfUnmodifiedSinceOnlyWithoutIfMatch ==
    (Answered /\ IfMatchValue # <<>>)
        => /\ \A v \in DateValues :
                 Decision(WithIfUnmodifiedSince(req, v))
                     = << IF resp.StatusCode = StatusOK THEN 0 ELSE resp.StatusCode,
                          resp.Header >>
           /\ IfMatchSatisfied => resp.StatusCode # StatusPreconditionFailed

\* C12 witness: a 200 for a request whose If-Match names the object's ETag
\* and whose If-Unmodified-Since is a second before the modification time.
C12_Witness ==
    /\ Answered
    /\ IfMatchValue = TagHello /\ ObjectETag = TagHello
    /\ IfUnmodifiedSinceValue = DateOf(1) /\ attrs.Updated = 2 * TicksPerSec
    /\ resp.StatusCode = StatusOK

\* The header sets the synthesis gives for the fetched attributes, one for
\* each order of the metadata entries.
SynthesizedHeaders ==
    { makeHeaderInOrder(attrs, o) : o \in IterationOrders(attrs.Metadata) }

\* The keys a 304 response leaves out of header set h.
StrippedKeys(h) ==
    { "Content-Type", "Content-Length" }
        \cup (IF "Etag" \in DOMAIN h THEN { "Last-Modified" } ELSE {})

\* C13: a 304 response has an empty body and the synthesized header set
\* without Content-Type and Content-Length, without Last-Modified exactly
\* when the set has an ETag, and with every other header as synthesized.
C13_NotModifiedHeaders ==
    (Answered /\ resp.StatusCode = StatusNotModified)
        => /\ resp.Body = NoBody
           /\ \E h \in SynthesizedHeaders :
                 /\ DOMAIN resp.Header = (DOMAIN h) \ StrippedKeys(h)
                 /\ \A k \in DOMAIN resp.Header : resp.Header[k] = h[k]

\* C13 witness: a 304 with Last-Modified for an object without MD5 whose
\* synthesized set has Content-Type and Content-Length.
C13_Witness ==
    /\ Answered /\ resp.StatusCode = StatusNotModified
    /\ attrs.MD5 = <<>> /\ attrs.ContentType # <<>> /\ attrs.Size # 0
    /\ "Last-Modified" \in DOMAIN resp.Header
    /\ "Etag" \notin DOMAIN resp.Header
    /\ "Content-Type" \notin DOMAIN resp.Header

\* C14: a 412 response has an empty body and the synthesized header set,
\* nothing added, removed or changed.
C14_PreconditionFailedHeaders ==
    (Answered /\ resp.StatusCode = StatusPreconditionFailed)
        => /\ resp.Body = NoBody
           /\ resp.Header \in SynthesizedHeaders

\* C14 witness: a 412 with Content-Type, Content-Length, Last-Modified and
\* ETag.
C14_Witness ==
    /\ Answered /\ resp.StatusCode = StatusPreconditionFailed
    /\ resp.Body = NoBody
    /\ { "Content-Type", "Content-Length", "Last-Modified", "Etag" }
           \subseteq DOMAIN resp.Header

(***************************************************************************)
(* Properties of the responses to failures and to other methods            *)
(***************************************************************************)

\* The last call the request made on the store client.
LastCall == calls[Len(calls)]

\* The request ended with a call of operation op that the store did not
\* serve.
EndedInFailed(op) ==
    /\ pc = "done" /\ IsFetch
    /\ calls # <<>> /\ LastCall.op = op /\ LastCall.served = 0

\* The error the store gave to that call: the store has not changed since.
FailedCallError ==
    StoreError([bucket |-> BucketName, name |-> ObjectName, gen |-> LastCall.gen])

\* C15: when the metadata fetch of a GET or HEAD reports that the object or
\* the bucket does not exist, RoundTrip returns a 404 response with an empty
\* body and no error.
C15_NotFound ==
    (EndedInFailed("Attrs") /\ FailedCallError \in { ErrObjectNotExist, ErrBucketNotExist })
        => /\ err = NoErr
           /\ resp.StatusCode = StatusNotFound
           /\ resp.Body = NoBody

\* C15 witness: a 404 for a HEAD on a store whose bucket is gone.
C15_Witness ==
    /\ EndedInFailed("Attrs") /\ req.Method = "HEAD"
    /\ FailedCallError = ErrBucketNotExist
    /\ resp.StatusCode = StatusNotFound /\ resp.Body = NoBody /\ err = NoErr

\* C16: when the metadata fetch fails with an error that carries a status
\* code, a body and a header set, RoundTrip returns no error and a response
\* with that status code, that body and that header set.
C16_Passthrough ==
    (EndedInFailed("Attrs") /\ FailedCallError.kind = "googleapi.Error")
        => /\ err = NoErr
           /\ resp.StatusCode = FailedCallError.Code
           /\ resp.Body.data = FailedCallError.Body
           /\ resp.Header = FailedCallError.Header

\* C16 witness: a 400 with the store's body and Content-Type for a GET.
C16_Witness ==
    /\ EndedInFailed("Attrs") /\ req.Method = "GET"
    /\ resp.StatusCode = 400
    /\ resp.Body.data = T("bad request")
    /\ HeaderGet(resp.Header, "Content-Type") = T("application/json")
    /\ err = NoErr

\* The fragment is there and is no decimal integer with an optional sign.
BadFragment ==
    LET f == req.URL.Fragment
    IN  /\ f # <<>>
        /\ \/ f \in { << "+" >>, << "-" >> }
           \/ \E i \in 1..Len(f) : ~IsDigit(f[i]) /\ ~(i = 1 /\ f[i] \in { "+", "-" })

\* C17: a GET or HEAD whose fragment is no integer, or whose metadata fetch
\* or stream opening fails for the store being unreachable, ends with that
\* error and without a response.
C17_OtherErrorsReturned ==
    (pc = "done" /\ IsFetch)
        => /\ BadFragment => (resp = NoResp /\ err = ErrInvalidGeneration)
           /\ \A op \in { "Attrs", "NewReader" } :
                 (EndedInFailed(op) /\ FailedCallError = ErrTransport)
                     => (resp = NoResp /\ err = ErrTransport)

\* C17 witness: the error of a GET whose fragment is "x".
C17_Witness ==
    /\ pc = "done" /\ req.Method = "GET"
    /\ req.URL.Fragment = << "x" >>
    /\ resp = NoResp /\ err = ErrInvalidGeneration

\* C18: a request whose method is neither GET nor HEAD makes no call on the
\* store client and resolves no object, and its response is 405 with an
\* empty body and an empty header set, without error.
C18_MethodNotAllowed ==
    ~IsFetch
        => /\ calls = <<>> /\ object = NoHandle
           /\ pc = "done"
                => /\ err = NoErr
                   /\ resp.StatusCode = StatusMethodNotAllowed
                   /\ resp.Body = NoBody
                   /\ resp.Header = EmptyHeader

\* C18 witness: the 405 for a POST.
C18_Witness ==
    /\ pc = "done" /\ req.Method = "POST"
    /\ resp.StatusCode = StatusMethodNotAllowed /\ calls = <<>>

\* C19: the response to a HEAD request has an empty body, whatever its
\* status code.
C19_HeadBodyEmpty ==
    (pc = "done" /\ req.Method = "HEAD" /\ err = NoErr)
        => resp.Body.data = <<>>

(***************************************************************************)
(* Properties of HEAD against GET                                          *)
(***************************************************************************)

\* The HEAD of a request is about to be handled and the GET of the same
\* request was answered with a response.
HeadFollowsAnsweredGet ==
    /\ pc = "start" /\ req.Method = "HEAD"
    /\ err = NoErr /\ resp # NoResp

\* The step answers the HEAD with the status code and the header set of
\* the response to the GET.
SameStatusAndHeader ==
    /\ err' = NoErr
    /\ resp'.StatusCode = resp.StatusCode
    /\ resp'.Header = resp.Header

\* The step answers the HEAD with an empty body and without opening a
\* stream.
EmptyBodyAndNoStream ==
    /\ resp'.Body.data = <<>>
    /\ \A i \in 1..Len(calls') : calls'[i].op # "NewReader"

\* C20: for the same URI, request headers and store, the HEAD is answered
\* with the status code and the header set the GET was answered with, with
\* an empty body and without a stream being opened.
C20_HeadAsGet ==
    [][HeadFollowsAnsweredGet => (SameStatusAndHeader /\ EmptyBodyAndNoStream)]_vars

\* C21: a HEAD answered 200 reports the size of the object as its content
\* length, the content length the 200 response to the GET of the same
\* request reported.
C21_HeadContentLength ==
    [][(HeadFollowsAnsweredGet /\ resp.StatusCode = StatusOK)
          => (resp'.StatusCode = StatusOK
                 => /\ resp'.ContentLength = attrs'.Size
                    /\ resp'.ContentLength = resp.ContentLength)]_vars

(***************************************************************************)
(* Properties of every response                                            *)
(***************************************************************************)

\* RoundTrip has returned without error.
Returned == pc = "done" /\ err = NoErr

\* C22: every response RoundTrip returns, whatever the method and the
\* outcome, is marked HTTP/1.0 and has its Close flag set.
C22_CloseAndProto ==
    Returned
        => /\ resp # NoResp
           /\ resp.Close
           /\ resp.Proto = "HTTP/1.0" /\ resp.ProtoMajor = 1 /\ resp.ProtoMinor = 0

\* C22 witness: the passthrough of a store error, closed and HTTP/1.0.
C22_Witness ==
    /\ Returned /\ EndedInFailed("Attrs")
    /\ FailedCallError.kind = "googleapi.Error"
    /\ resp.Close /\ resp.Proto = "HTTP/1.0"

\* The metadata fetch of the request succeeded.
FetchSucceeded == \E i \in 1..Len(calls) : calls[i].op = "Attrs" /\ calls[i].served # 0

\* C23: the status code of every response is 200, 304, 404, 405 or 412, or
\* the status code of the store error the metadata fetch failed with; it is
\* 200 only for a GET or HEAD whose metadata fetch succeeded and whose
\* preconditions let it proceed.
C23_StatusCodes ==
    Returned
        => /\ \/ resp.StatusCode \in { StatusOK, StatusNotModified, StatusNotFound,
                                       StatusMethodNotAllowed, StatusPreconditionFailed }
              \/ /\ EndedInFailed("Attrs")
                 /\ FailedCallError.kind = "googleapi.Error"
                 /\ resp.StatusCode = FailedCallError.Code
           /\ resp.StatusCode = StatusOK
                => (IsFetch /\ FetchSucceeded /\ ProceedExpected)
           /\ resp.StatusCode = StatusMethodNotAllowed <=> ~IsFetch

\* C23 witness: a 200 for a HEAD whose If-Match names the object's ETag.
C23_Witness ==
    /\ Returned /\ req.Method = "HEAD"
    /\ HeaderGet(req.Header, "If-Match") = TagHello
    /\ FetchSucceeded
    /\ resp.StatusCode = StatusOK

(***************************************************************************)
(* Properties of the synthesized header set                                *)
(***************************************************************************)

\* What hexadecimal, base64 and decimal texts stand for, stated by decoding
\* them.

\* The value of a lower-case hexadecimal digit, -1 for any other character.
LowerHexValue(c) ==
    IF IsDigit(c) THEN DigitVal(c)
    ELSE CASE c = "a" -> 10 [] c = "b" -> 11 [] c = "c" -> 12
           [] c = "d" -> 13 [] c = "e" -> 14 [] c = "f" -> 15 [] OTHER -> -1

\* text is the lower-case hexadecimal form of bytes: two digits for a byte.
IsLowerHexOf(text, bytes) ==
    /\ Len(text) = 2 * Len(bytes)
    /\ \A i \in 1..Len(bytes) :
          /\ LowerHexValue(text[(2 * i) - 1]) >= 0
          /\ LowerHexValue(text[2 * i]) >= 0
          /\ bytes[i] = (16 * LowerHexValue(text[(2 * i) - 1])) + LowerHexValue(text[2 * i])

\* The value of a character of the standard base64 alphabet ("A" is 0, "a"
\* is 26, "0" is 52, "+" is 62, "/" is 63), -1 for any other character.
Base64Value(c) ==
    IF \E n \in 1..64 : Base64Alphabet[n] = c
    THEN (CHOOSE n \in 1..64 : Base64Alphabet[n] = c) - 1
    ELSE -1

\* The bits of a base64 text as one number per character, "=" counted as 0.
SixBits(c) == IF c = "=" THEN 0 ELSE Base64Value(c)

\* text is the standard base64 form of bytes: four characters for every
\* three bytes, the bits of the bytes in order, the last group filled with
\* zero bits and padded with "=".
IsBase64Of(text, bytes) ==
    LET n == Len(bytes)
        groups == (n + 2) \div 3
        byte(j) == IF j <= n THEN bytes[j] ELSE 0
    IN  /\ Len(text) = 4 * groups
        /\ \A g \in 1..groups :
              LET c1 == text[(4 * g) - 3]
                  c2 == text[(4 * g) - 2]
                  c3 == text[(4 * g) - 1]
                  c4 == text[4 * g]
                  b1 == byte((3 * g) - 2)
                  b2 == byte((3 * g) - 1)
                  b3 == byte(3 * g)
              IN  /\ Base64Value(c1) >= 0 /\ Base64Value(c2) >= 0
                  /\ (c3 = "=") <=> ((3 * g) - 1 > n)
                  /\ (c4 = "=") <=> (3 * g > n)
                  /\ c3 # "=" => Base64Value(c3) >= 0
                  /\ c4 # "=" => Base64Value(c4) >= 0
                  /\ ((SixBits(c1) * 262144) + (SixBits(c2) * 4096)
                          + (SixBits(c3) * 64) + SixBits(c4))
                        = (b1 * 65536) + (b2 * 256) + b3

\* text is the decimal form of the non-negative number n, without sign and
\* without leading zeros.
RECURSIVE DecimalValue(_)
DecimalValue(text) ==
    IF text = <<>> THEN 0
    ELSE (10 * DecimalValue(SubSeq(text, 1, Len(text) - 1))) + DigitVal(text[Len(text)])

IsDecimalOf(text, n) ==
    /\ text # <<>>
    /\ \A i \in 1..Len(text) : IsDigit(text[i])
    /\ Len(text) > 1 => text[1] # "0"
    /\ DecimalValue(text) = n

\* makeHeader has returned.
Made == pc \in { "made", "again" }

\* The values of key k in the header set, none when the key is not there.
Values(k) == IF k \in DOMAIN header THEN header[k] ELSE <<>>

\* The x-goog-hash values that begin with the text p.
HashValues(p) ==
    { i \in 1..Len(Values("X-Goog-Hash")) : HasPrefix(Values("X-Goog-Hash")[i], p) }

Md5Prefix == << "m", "d", "5", "=" >>
Crc32cPrefix == << "c", "r", "c", "3", "2", "c", "=" >>

\* C24: for attributes with an MD5, the ETag header is a double quote, the
\* lower-case hexadecimal form of the MD5 and a double quote, without W/,
\* and x-goog-hash has the value md5= followed by the standard base64 form
\* of the MD5; for attributes without MD5 there is no ETag header and no
\* md5 value.
C24_ETagAndMd5 ==
    Made
        => IF Len(attrs.MD5) > 0
           THEN /\ Len(Values("Etag")) = 1
                /\ LET e == Values("Etag")[1]
                   IN  /\ Len(e) >= 2 /\ e[1] = "\"" /\ e[Len(e)] = "\""
                       /\ IsLowerHexOf(SubSeq(e, 2, Len(e) - 1), attrs.MD5)
                /\ \E i \in HashValues(Md5Prefix) :
                      IsBase64Of(TrimPrefix(Values("X-Goog-Hash")[i], Md5Prefix), attrs.MD5)
           ELSE /\ "Etag" \notin DOMAIN header
                /\ HashValues(Md5Prefix) = {}

\* C24 witness: the ETag and the md5 value the tests expect for their MD5.
C24_Witness ==
    /\ Made /\ attrs.MD5 = MD5Fixture
    /\ Values("Etag")
          = << << "\"", "0", "b", "4", "6", "f", "3", "0", "6", "e", "9", "2", "d", "8", "8",
                  "5", "1", "5", "e", "0", "6", "d", "4", "8", "a", "6", "2", "d", "c", "c",
                  "3", "1", "9", "\"" >> >>
    /\ Values("X-Goog-Hash")[1]
          = << "m", "d", "5", "=", "C", "0", "b", "z", "B", "u", "k", "t", "i", "F", "F", "e",
               "B", "t", "S", "K", "Y", "t", "z", "D", "G", "Q", "=", "=" >>

\* C25: x-goog-hash always has the value crc32c= followed by the base64
\* form of the four bytes of the checksum, the most significant first, also
\* for the checksum 0; with an MD5 the md5 value is the first and the crc32c
\* value the second value, without MD5 the crc32c value is the only one.
C25_Crc32cAlways ==
    Made
        => LET hash == Values("X-Goog-Hash")
               hi == attrs.CRC32C[1]
               lo == attrs.CRC32C[2]
           IN  /\ Len(hash) = (IF Len(attrs.MD5) > 0 THEN 2 ELSE 1)
               /\ HasPrefix(hash[Len(hash)], Crc32cPrefix)
               /\ IsBase64Of(TrimPrefix(hash[Len(hash)], Crc32cPrefix),
                             << hi \div 256, hi % 256, lo \div 256, lo % 256 >>)
               /\ Len(attrs.MD5) > 0 => HasPrefix(hash[1], Md5Prefix)

\* C25 witness: crc32c=AAAAAA== for the checksum 0 after an md5 value.
C25_Witness ==
    /\ Made /\ attrs.CRC32C = << 0, 0 >> /\ Len(attrs.MD5) > 0
    /\ Len(Values("X-Goog-Hash")) = 2
    /\ Values("X-Goog-Hash")[2]
          = << "c", "r", "c", "3", "2", "c", "=", "A", "A", "A", "A", "A", "A", "=", "=" >>

\* Header k is left out when text v is empty and has the one value v
\* otherwise.
Verbatim(k, v) == IF v = <<>> THEN k \notin DOMAIN header ELSE Values(k) = << v >>

\* Header k is left out when number n is 0 and has the decimal form of n as
\* its one value otherwise.
Decimal(k, n) ==
    IF n = 0 THEN k \notin DOMAIN header
    ELSE Len(Values(k)) = 1 /\ IsDecimalOf(Values(k)[1], n)

\* The names of the headers of custom metadata entries.
MetaHeaderNames == { "X-Goog-Meta-Foo", "X-Goog-Meta-Bar" }

\* C26: each header is left out when the attribute it comes from is empty
\* or zero and carries the attribute's value otherwise (a text as it is, a
\* number in decimal, the time as the date of its second); the crc32c value
\* of x-goog-hash is the one value given for a zero attribute; and there
\* are no other headers but those of the metadata entries.
C26_ZeroValuesOmitted ==
    Made
        => /\ Verbatim("Content-Type", attrs.ContentType)
           /\ Verbatim("Content-Language", attrs.ContentLanguage)
           /\ Verbatim("Cache-Control", attrs.CacheControl)
           /\ Decimal("Content-Length", attrs.Size)
           /\ Verbatim("Content-Encoding", attrs.ContentEncoding)
           /\ Verbatim("Content-Disposition", attrs.ContentDisposition)
           /\ Decimal("Last-Modified", attrs.Updated \div TicksPerSec)
           /\ attrs.Updated # 0 => "Last-Modified" \in DOMAIN header
           /\ ("Etag" \in DOMAIN header) <=> (attrs.MD5 # <<>>)
           /\ (HashValues(Md5Prefix) # {}) <=> (attrs.MD5 # <<>>)
           /\ HashValues(Crc32cPrefix) # {}
           /\ Decimal("X-Goog-Generation", attrs.Generation)
           /\ Decimal("X-Goog-Metageneration", attrs.Metageneration)
           /\ Decimal("X-Goog-Stored-Content-Length", attrs.Size)
           /\ Verbatim("X-Goog-Stored-Content-Encoding", attrs.ContentEncoding)
           /\ Verbatim("X-Goog-Storage-Class", attrs.StorageClass)
           /\ DOMAIN header \subseteq
                 { "Content-Type", "Content-Language", "Cache-Control", "Content-Length",
                   "Content-Encoding", "Content-Disposition", "Last-Modified", "Etag",
                   "X-Goog-Hash", "X-Goog-Generation", "X-Goog-Metageneration",
                   "X-Goog-Stored-Content-Length", "X-Goog-Stored-Content-Encoding",
                   "X-Goog-Storage-Class" } \cup MetaHeaderNames

\* C26 witness: the header set of attributes that are all zero is the
\* crc32c value alone.
C26_Witness ==
    /\ Made
    /\ attrs = TextAttrs({})
    /\ DOMAIN header = { "X-Goog-Hash" }
    /\ Len(Values("X-Goog-Hash")) = 1

\* C27: a second synthesis from the same attributes gives the header set
\* the first gave and leaves the attributes as they were.
C27_SynthesisDeterministic ==
    [][pc = "made" => (header' = header /\ attrs' = attrs)]_vars

\* C28: for every entry of the custom metadata map the header set has a
\* header x-goog-meta-<key> whose one value is the entry's value, and there
\* are as many x-goog-meta- headers as entries.
C28_OneHeaderPerEntry ==
    Made
        => /\ \A k \in DOMAIN attrs.Metadata :
                 Values(CanonicalMIMEHeaderKey(MetaHeaderKey(k))) = << attrs.Metadata[k] >>
           /\ Cardinality((DOMAIN header) \cap MetaHeaderNames)
                 = Cardinality(DOMAIN attrs.Metadata)

(***************************************************************************)
(* Properties of the resolution of the request to an object                *)
(***************************************************************************)

\* The bucket the request names: its host, or the authority of its URI when
\* it has no host.
NamedBucket == IF req.Host # <<>> THEN req.Host ELSE req.URL.Host

\* The key the request names: its path without its first character when
\* that is a slash.
NamedKey ==
    IF req.URL.Path # <<>> /\ req.URL.Path[1] = "/" THEN Tail(req.URL.Path)
    ELSE req.URL.Path

\* C29: the object of the store is found (200) exactly when the host of the
\* request, or the authority of its URI when the host is empty, is the
\* object's bucket and the path without one leading slash is the object's
\* key; every other request is answered 404; and the handle of a found
\* object has that bucket and that key.
C29_BucketAndKey ==
    pc = "done"
        => /\ err = NoErr
           /\ resp.StatusCode = StatusOK
                 <=> (NamedBucket = BucketName /\ NamedKey = ObjectName)
           /\ resp.StatusCode # StatusOK => resp.StatusCode = StatusNotFound
           /\ resp.StatusCode = StatusOK
                 => (object.bucket = NamedBucket /\ object.name = NamedKey)

\* C29 witness: a 404 for the path //object-key on the bucket named by the
\* authority of the URI.
C29_Witness ==
    /\ pc = "done"
    /\ req.Host = <<>> /\ req.URL.Host = BucketName
    /\ req.URL.Path = << "/", "/" >> \o ObjectName
    /\ resp.StatusCode = StatusNotFound

(***************************************************************************)
(* Properties of the source of the response headers                        *)
(***************************************************************************)

\* C30: the headers of a 200, 304 or 412 response to a GET or HEAD are
\* those synthesized from the attributes the one metadata fetch returned
\* (less the headers a 304 leaves out), and the content length of a 200 to
\* a GET is their size, whatever attributes the opened stream exposes.
C30_HeadersFromFetchedAttrs ==
    (Returned /\ IsFetch /\ FetchSucceeded)
        => /\ Len(CallsOf("Attrs")) = 1
           /\ resp.StatusCode \in { StatusOK, StatusPreconditionFailed }
                 => resp.Header \in SynthesizedHeaders
           /\ resp.StatusCode = StatusNotModified
                 => \E h \in SynthesizedHeaders :
                       /\ DOMAIN resp.Header = (DOMAIN h) \ StrippedKeys(h)
                       /\ \A k \in DOMAIN resp.Header : resp.Header[k] = h[k]
           /\ (resp.StatusCode = StatusOK /\ req.Method = "GET")
                 => resp.ContentLength = attrs.Size

\* C30 witness: a 200 for a GET whose stream exposes another content type
\* and another metageneration than the fetched attributes.
C30_Witness ==
    /\ Returned /\ req.Method = "GET" /\ resp.StatusCode = StatusOK
    /\ ReaderSnapshot(resp.Body).ContentType = PatchedContentType
    /\ attrs.ContentType = T("text/plain")
    /\ ReaderSnapshot(resp.Body).Metageneration # attrs.Metageneration
    /\ HeaderGet(resp.Header, "Content-Type") = T("text/plain")


(***************************************************************************)
(* Properties of the failure to open the stream and of what is returned    *)
(***************************************************************************)

\* C35: when opening the stream of a GET fails after the metadata fetch
\* succeeded, the failure is translated as a failure of the metadata fetch
\* is: 404 with an empty body and no error for a missing object or bucket,
\* the status code, body and header set of a structured error.
C35_OpenFailureTranslated ==
    /\ (EndedInFailed("NewReader")
            /\ FailedCallError \in { ErrObjectNotExist, ErrBucketNotExist })
        => (err = NoErr /\ resp.StatusCode = StatusNotFound /\ resp.Body = NoBody)
    /\ (EndedInFailed("NewReader") /\ FailedCallError.kind = "googleapi.Error")
        => /\ err = NoErr
           /\ resp.StatusCode = FailedCallError.Code
           /\ resp.Body.data = FailedCallError.Body
           /\ resp.Header = FailedCallError.Header

\* C38: when RoundTrip has returned, exactly one of its two results is
\* there: a response without an error, or an error without a response.
C38_ResponseXorError ==
    pc = "done" => ((resp # NoResp) <=> (err = NoErr))

\* C38 witness: a HEAD that ended with the error of an unreachable store and
\* without a response.
C38_Witness ==
    /\ EndedInFailed("Attrs") /\ req.Method = "HEAD"
    /\ FailedCallError = ErrTransport
    /\ resp = NoResp /\ err = ErrTransport

\* The calls of NewReader that the store served: the streams that were
\* opened.
OpenedStreams == { i \in PositionsOf("NewReader") : calls[i].served # 0 }

\* C39: a request opens at most one stream, and a stream that was opened is
\* the body of the 200 response that RoundTrip returns without an error.
C39_StreamHandedOver ==
    /\ Cardinality(OpenedStreams) <= 1
    /\ \A i \in OpenedStreams :
          /\ pc = "done" /\ err = NoErr
          /\ resp.StatusCode = StatusOK
          /\ resp.Body.kind = "reader"
          /\ resp.Body.gen = calls[i].served

\* C39 witness: the stream of generation 2, opened after an overwrite, is
\* the body of the 200 response.
C39_Witness ==
    /\ OpenedStreams # {}
    /\ LastCall.served = 2
    /\ resp.StatusCode = StatusOK /\ resp.Body.kind = "reader" /\ resp.Body.gen = 2


(***************************************************************************)
(* Properties of the lists of If-Match and If-None-Match                   *)
(***************************************************************************)

\* The ETag header of the response.
ResponseETag == HeaderGet(resp.Header, "Etag")

\* The positions of the items of a list that are neither "*" nor an entity
\* tag.
MalformedItems(l) == { i \in 1..Len(l) : l[i] # Star /\ ~IsEntityTag(l[i]) }

\* The positions of the items that satisfy If-Match for the ETag e: "*", or
\* the ETag itself when it is a strong one.
IfMatchHits(l, e) ==
    { i \in 1..Len(l) : l[i] = Star \/ (l[i] = e /\ IsQuotedString(e)) }

\* The positions of the items that make If-None-Match fail for the ETag e:
\* "*", or an entity tag with the quoted string of e.
IfNoneMatchHits(l, e) ==
    { i \in 1..Len(l) :
        l[i] = Star \/ (e # <<>> /\ IsEntityTag(l[i]) /\ OpaqueTag(l[i]) = OpaqueTag(e)) }

\* Some position of set first comes before every position of set second.
Precedes(first, second) == \E i \in first : \A j \in second : i < j

\* C33: a list is read from the left up to its first malformed item. With a
\* malformed item before every item that would satisfy If-Match, the
\* response is 412; with a malformed item before every item that would make
\* If-None-Match fail, the response is not 304; an item that decides and
\* comes before every malformed item decides.
C33_ListStopsAtMalformed ==
    \A l \in ItemLists :
        /\ (Answered /\ Join(l) = IfMatchValue)
              => /\ Precedes(MalformedItems(l), IfMatchHits(l, ResponseETag))
                        => resp.StatusCode = StatusPreconditionFailed
                 /\ Precedes(IfMatchHits(l, ResponseETag), MalformedItems(l))
                        => resp.StatusCode # StatusPreconditionFailed
        /\ (Answered /\ Join(l) = IfNoneMatchValue
                /\ resp.StatusCode # StatusPreconditionFailed)
              => /\ Precedes(MalformedItems(l), IfNoneMatchHits(l, ResponseETag))
                        => resp.StatusCode # StatusNotModified
                 /\ Precedes(IfNoneMatchHits(l, ResponseETag), MalformedItems(l))
                        => resp.StatusCode = StatusNotModified

\* C33 witness: a 412 for If-Match: 0b, "0b" on the object with ETag "0b".
C33_Witness ==
    /\ Answered
    /\ IfMatchValue = Join(<< TagUnquoted, TagHello >>)
    /\ ResponseETag = TagHello
    /\ resp.StatusCode = StatusPreconditionFailed

\* The items of a list.
ItemsOf(l) == { l[i] : i \in 1..Len(l) }

\* C34: If-Match compares strongly and If-None-Match weakly. For the object
\* with ETag "0b", an If-Match list with W/"0b" and without "0b" and "*"
\* gives 412, and an If-None-Match list with W/"0b" and without malformed
\* item gives 304.
C34_StrongAndWeakComparison ==
    \A l \in ItemLists :
        (Answered /\ ResponseETag = TagHello /\ TagWeakHello \in ItemsOf(l))
            => /\ (Join(l) = IfMatchValue /\ TagHello \notin ItemsOf(l)
                        /\ Star \notin ItemsOf(l))
                      => resp.StatusCode = StatusPreconditionFailed
               /\ (Join(l) = IfNoneMatchValue /\ MalformedItems(l) = {}
                        /\ resp.StatusCode # StatusPreconditionFailed)
                      => resp.StatusCode = StatusNotModified

\* C34 witness: a 412 for If-Match: W/"0b" on the object with ETag "0b".
C34_Witness ==
    /\ Answered
    /\ IfMatchValue = TagWeakHello
    /\ ResponseETag = TagHello
    /\ resp.StatusCode = StatusPreconditionFailed


(***************************************************************************)
(* Properties of the dates that cannot be compared                         *)
(***************************************************************************)

\* The status the precondition checks decide on, 0 to proceed, and the
\* header set of the response that was returned.
Outcome ==
    << IF resp.StatusCode = StatusOK THEN 0 ELSE resp.StatusCode, resp.Header >>

\* The text "x", which is no HTTP-date.
NoDate == << "x" >>

\* C36: an If-Modified-Since or If-Unmodified-Since header whose value is no
\* date, or that is sent for an object without modification time, changes
\* nothing: the response is the one to the request without that header.
C36_UncomparableDateIgnored ==
    Answered
        => /\ (IfModifiedSinceValue # <<>>
                    /\ (IfModifiedSinceValue = NoDate \/ attrs.Updated = 0))
                  => Decision(WithIfModifiedSince(req, <<>>)) = Outcome
           /\ (IfUnmodifiedSinceValue # <<>>
                    /\ (IfUnmodifiedSinceValue = NoDate \/ attrs.Updated = 0))
                  => Decision(WithIfUnmodifiedSince(req, <<>>)) = Outcome

\* C36 witness: a 200 for If-Modified-Since of second 3 alone, on an object
\* without modification time.
C36_Witness ==
    /\ Answered
    /\ IfModifiedSinceValue = DateOf(3) /\ attrs.Updated = 0
    /\ IfNoneMatchValue = <<>> /\ IfMatchValue = <<>> /\ IfUnmodifiedSinceValue = <<>>
    /\ resp.StatusCode = StatusOK


(***************************************************************************)
(* Specification: a request, then the same request with a validator of its *)
(* 200 response, the store at rest                                         *)
(***************************************************************************)

\* The requests that are sent first: without conditional headers.
PlainRequests ==
    { Request(m, f, EmptyHeader) : m \in { "GET", "HEAD" }, f \in { <<>>, FormatNat(1) } }

\* The conditional headers and the validator each one is sent with.
ValidatorOf ==
    [k \in { "If-Match", "If-None-Match", "If-Modified-Since", "If-Unmodified-Since" } |->
        IF k \in { "If-Match", "If-None-Match" } THEN "Etag" ELSE "Last-Modified"]

\* The client sends the request it got a 200 response to once more, with one
\* conditional header that carries a validator of that response; the
\* response stays in resp until the new request is answered.
ResendValidator ==
    /\ pc = "done" /\ err = NoErr
    /\ resp.StatusCode = StatusOK
    /\ req.Header = EmptyHeader
    /\ \E k \in DOMAIN ValidatorOf :
          /\ HeaderGet(resp.Header, ValidatorOf[k]) # <<>>
          /\ req' = [req EXCEPT !.Header =
                        HeaderSet(EmptyHeader, k, HeaderGet(resp.Header, ValidatorOf[k]))]
    /\ pc' = "start"
    /\ UNCHANGED << asideVars, storeVars, object, attrs, header, calls, resp, err >>

InitRevalidate ==
    /\ \E a \in CondAttrs : objects = << StoredObject(a, 1) >>
    /\ live = 1
    /\ storeFault = "none"
    /\ req \in PlainRequests
    /\ pc = "start"
    /\ object = NoHandle
    /\ attrs = NoAttrs
    /\ header = EmptyHeader
    /\ calls = <<>>
    /\ resp = NoResp
    /\ err = NoErr
    /\ other = NoCall
    /\ etag = <<>>
    /\ remain = <<>>

NextRevalidate ==
    \/ GetObject
    \/ GetObjectOpen
    \/ ResendValidator
    \/ HeadObject

SpecRevalidate == InitRevalidate /\ [][NextRevalidate]_vars

\* The request about to be handled carries, as header k, the validator of
\* the 200 response that is still in resp.
Resent(k) ==
    /\ pc = "start" /\ resp.StatusCode = StatusOK
    /\ HeaderGet(req.Header, k) # <<>>
    /\ HeaderGet(req.Header, k) = HeaderGet(resp.Header, ValidatorOf[k])

\* C37: against the metadata the 200 response was made of, the ETag of the
\* response sent as If-None-Match is answered 304, and so is its
\* Last-Modified sent as If-Modified-Since when it has no ETag; the ETag
\* sent as If-Match and the Last-Modified sent as If-Unmodified-Since are
\* not answered 412.
C37_ValidatorsRoundTrip ==
    [][ /\ Resent("If-None-Match") => resp'.StatusCode = StatusNotModified
        /\ (Resent("If-Modified-Since") /\ HeaderGet(resp.Header, "Etag") = <<>>)
              => resp'.StatusCode = StatusNotModified
        /\ Resent("If-Match") => resp'.StatusCode # StatusPreconditionFailed
        /\ Resent("If-Unmodified-Since") => resp'.StatusCode # StatusPreconditionFailed
      ]_vars

\* C37 witness: a 304 for the Last-Modified of second 2 sent as
\* If-Modified-Since, for an object without ETag that was modified one tick
\* after second 2.
C37_Witness ==
    /\ pc = "done" /\ err = NoErr
    /\ HeaderGet(req.Header, "If-Modified-Since") = DateOf(2)
    /\ attrs.Updated = (2 * TicksPerSec) + 1 /\ attrs.MD5 = <<>>
    /\ resp.StatusCode = StatusNotModified
    /\ HeaderGet(resp.Header, "Last-Modified") = DateOf(2)


(***************************************************************************)
(* Specification: scanETag on a text                                       *)
(***************************************************************************)

\* The most bytes between the quotes of the texts that are scanned.
MaxInner == 2

\* The bytes that are put between the quotes: the ends of the three ranges
\* that are allowed, and a space, a tab and the byte 0x7F.
InnerBytes == { "!", "#", "~", "<80>", "<ff>", " ", "\t", "<7f>" }

\* The texts that are scanned: white space or none, W/ or none, an opening
\* quote, none or another byte, up to MaxInner bytes, a closing quote or
\* none, a rest or none, white space or none.
ScanTexts ==
    { lead \o weak \o open \o inner \o close \o rest \o trail :
        lead \in { <<>>, << " " >>, << "\t", "\n" >> },
        weak \in { <<>>, << "W", "/" >> },
        open \in { << "\"" >>, <<>>, << "x" >> },
        inner \in UNION { [1..n -> InnerBytes] : n \in 0..MaxInner },
        close \in { << "\"" >>, <<>> },
        rest \in { <<>>, << ",", " " >> \o TagOther, << "x" >> },
        trail \in { <<>>, << " ", "\r" >> } }

\* The text that is scanned is held as the If-Match value of the request.
ScanText == HeaderGet(req.Header, "If-Match")

\* etag, remain := scanETag(im)
ScanETag ==
    /\ pc = "start"
    /\ etag' = scanETag(ScanText)[1]
    /\ remain' = scanETag(ScanText)[2]
    /\ pc' = "scanned"
    /\ UNCHANGED << storeVars, req, object, attrs, header, calls, resp, err, other >>

InitScan ==
    /\ objects = <<>>
    /\ live = 0
    /\ storeFault = "none"
    /\ \E text \in ScanTexts :
          req = Request("GET", <<>>, HeaderSet(EmptyHeader, "If-Match", text))
    /\ pc = "start"
    /\ object = NoHandle
    /\ attrs = NoAttrs
    /\ header = EmptyHeader
    /\ calls = <<>>
    /\ resp = NoResp
    /\ err = NoErr
    /\ other = NoCall
    /\ etag = <<>>
    /\ remain = <<>>

NextScan == ScanETag

SpecScan == InitScan /\ [][NextScan]_vars

\* White space: space, tab, line feed, carriage return.
IsSpaceByte(c) == Ord(c) \in { 32, 9, 10, 13 }

\* The bytes of the three ranges 0x21, 0x23-0x7E, 0x80-0xFF.
IsETagByte(c) == Ord(c) = 33 \/ Ord(c) \in 35..126 \/ Ord(c) \in 128..255

\* The bytes a+1..b of the text are an optional W/ and a quoted string of
\* such bytes, and the bytes before them are white space.
IsTokenAt(text, a, b) ==
    LET weak == a + 2 <= Len(text) /\ text[a + 1] = "W" /\ text[a + 2] = "/"
        q == IF weak THEN a + 3 ELSE a + 1
    IN  /\ \A i \in 1..a : IsSpaceByte(text[i])
        /\ q < b /\ b <= Len(text)
        /\ text[q] = "\"" /\ text[b] = "\""
        /\ \A i \in (q + 1)..(b - 1) : IsETagByte(text[i])

\* The place of the last byte of the text that is no white space (0: none).
LastByte(text) ==
    LET at == { i \in 1..Len(text) : ~IsSpaceByte(text[i]) }
    IN  IF at = {} THEN 0 ELSE CHOOSE i \in at : \A j \in at : j <= i

\* The places where the token of the text starts and ends, if it has one.
TokenPlaces(text) ==
    { ab \in (0..Len(text)) \X (1..Len(text)) : IsTokenAt(text, ab[1], ab[2]) }

\* C32: for a text that, after the white space around it, begins with an
\* optional W/ and a quoted string of bytes 0x21, 0x23-0x7E, 0x80-0xFF,
\* scanETag returns that token, W/ and quotes included, and the text that
\* follows it; for every other text it returns two empty texts.
C32_ScanETag ==
    pc = "scanned"
        => IF TokenPlaces(ScanText) = {}
           THEN etag = <<>> /\ remain = <<>>
           ELSE \E ab \in TokenPlaces(ScanText) :
                   /\ etag = SubSeq(ScanText, ab[1] + 1, ab[2])
                   /\ remain = SubSeq(ScanText, ab[2] + 1, LastByte(ScanText))

\* C32 witness: the token W/"!<ff>" and the rest , "zz" of a text with white
\* space around them.
C32_Witness ==
    /\ pc = "scanned"
    /\ ScanText = << " ", "W", "/", "\"", "!", "<ff>", "\"", ",", " " >> \o TagOther
                      \o << " ", "\r" >>
    /\ etag = << "W", "/", "\"", "!", "<ff>", "\"" >>
    /\ remain = << ",", " " >> \o TagOther


(***************************************************************************)
(* Specification: two RoundTrip calls of one Transport at the same time,   *)
(* against a store that changes under them                                 *)
(***************************************************************************)

\* The locals of the RoundTrip call that is running.
Locals ==
    [req |-> req, pc |-> pc, object |-> object, attrs |-> attrs, header |-> header,
     calls |-> calls, resp |-> resp, err |-> err]

\* Mutant of Switch: the header set is one that the two calls share.
SwitchSharedHeader ==
    /\ other.pc # "none"
    /\ other' = Locals
    /\ req' = other.req
    /\ pc' = other.pc
    /\ object' = other.object
    /\ attrs' = other.attrs
    /\ calls' = other.calls
    /\ resp' = other.resp
    /\ err' = other.err
    /\ UNCHANGED << storeVars, header, etag, remain >>

\* The scheduler stops the goroutine of the call that is running and lets
\* the goroutine of the other call run: each call has its own req, object,
\* attrs, header, body and results, and the Transport they share has the
\* client only, which no call assigns.
Switch ==
    /\ other.pc # "none"
    /\ other' = Locals
    /\ req' = other.req
    /\ pc' = other.pc
    /\ object' = other.object
    /\ attrs' = other.attrs
    /\ header' = other.header
    /\ calls' = other.calls
    /\ resp' = other.resp
    /\ err' = other.err
    /\ UNCHANGED << storeVars, etag, remain >>

\* The requests of the two calls: GET and HEAD, of the latest generation and
\* of generation 1, with and without If-None-Match.
ConcurrentRequests ==
    { Request(m, f, ReqHeader(<<>>, inm, <<>>, <<>>)) :
        m \in { "GET", "HEAD" }, f \in { <<>>, FormatNat(1) }, inm \in { <<>>, TagHello } }

InitConcurrent ==
    /\ \E a \in WriterAttrs : objects = << StoredObject(a, 1) >>
    /\ live = 1
    /\ storeFault = "none"
    /\ req \in ConcurrentRequests
    /\ pc = "start"
    /\ object = NoHandle
    /\ attrs = NoAttrs
    /\ header = EmptyHeader
    /\ calls = <<>>
    /\ resp = NoResp
    /\ err = NoErr
    /\ \E r \in ConcurrentRequests : other = [NoCall EXCEPT !.req = r, !.pc = "start"]
    /\ etag = <<>>
    /\ remain = <<>>

NextConcurrent ==
    \/ Overwrite
    \/ DeleteGeneration
    \/ StoreCondition
    \/ GetObject
    \/ GetObjectOpen
    \/ HeadObject
    \/ Switch

SpecConcurrent == InitConcurrent /\ [][NextConcurrent]_vars

\* The errors the store gives to a call.
StoreErrors ==
    { ErrObjectNotExist } \cup { FaultError(f) : f \in StoreFaults \ { "none" } }

\* The attributes the store returned to the Attrs call of the running call:
\* those of the generation it served (a generation keeps its attributes).
FetchedAttrs ==
    LET i == CHOOSE i \in PositionsOf("Attrs") : calls[i].served # 0
    IN  objects[calls[i].served].attrs

\* What checkPreconditions gives for the request of the running call and
\* the header set made of those attributes.
OwnPreconditions ==
    checkPreconditions(
        req,
        makeHeaderInOrder(FetchedAttrs,
                          CHOOSE o \in IterationOrders(FetchedAttrs.Metadata) : TRUE),
        FetchedAttrs)

\* The stream the store returned to the NewReader call of the running call.
OpenedBody ==
    LET i == CHOOSE i \in OpenedStreams : TRUE
    IN  [kind |-> "reader", gen |-> calls[i].served,
         data |-> objects[calls[i].served].content]

\* C31: with two RoundTrip calls running at the same time, in any
\* interleaving of their steps and of the changes of the store, what a call
\* returns is what its own request and the results of its own calls on the
\* store give: the response made of the attributes it fetched, with the
\* header set made and stripped for it alone and the stream it opened, or
\* the translation of the error the store gave it.
C31_CallsIndependent ==
    (pc = "done" /\ other.pc # "none")
        => IF FetchSucceeded
           THEN /\ attrs = FetchedAttrs
                /\ header = OwnPreconditions.header
                /\ IF OwnPreconditions.resp # NoResp
                   THEN /\ resp = OwnPreconditions.resp /\ err = NoErr
                        /\ PositionsOf("NewReader") = {}
                   ELSE IF req.Method = "HEAD"
                   THEN /\ resp = Response(StatusOK, OwnPreconditions.header, NoBody, 0)
                        /\ err = NoErr
                   ELSE IF OpenedStreams # {}
                   THEN /\ resp = Response(StatusOK, OwnPreconditions.header, OpenedBody,
                                           FetchedAttrs.Size)
                        /\ err = NoErr
                   ELSE resp = NoResp /\ err \in StoreErrors
           ELSE << resp, err >> \in { handleError(e) : e \in StoreErrors }

\* C31 witness: a GET answered 200 with its full header set and the stream
\* of generation 1, while the other call was answered 304 with the stripped
\* header set of generation 2.
C31_Witness ==
    /\ pc = "done" /\ req.Method = "GET"
    /\ resp.StatusCode = StatusOK /\ resp.Body.gen = 1
    /\ HeaderGet(resp.Header, "Content-Type") = T("text/plain")
    /\ other.pc = "done"
    /\ other.resp.StatusCode = StatusNotModified
    /\ other.attrs.Generation = 2
    /\ HeaderGet(other.resp.Header, "Content-Type") = <<>>

=============================================================================
